---------------------------- MODULE Spec2Model ----------------------------
(***************************************************************************)
(* A model of the OData -> MCP tool bridge (mcp-nest).                     *)
(*                                                                         *)
(*   - the service-id deriver        (tool-generator: extractServiceId)    *)
(*   - the tool-name builder         (tool-generator: buildToolName)       *)
(*   - the tool generator            (tool-generator: generateTools...)    *)
(*   - the metadata parser           (metadata-parser: parseMetadata)      *)
(*   - the JSON-RPC bridge registry  (odata-jsonrpc-bridge)                *)
(*                                                                         *)
(* JavaScript strings that the code cuts, matches or rewrites are modelled *)
(* as sequences of one-character strings, so that substring, the regular   *)
(* expressions and the replace calls are computed as the code does.        *)
(***************************************************************************)
EXTENDS Integers, Sequences, FiniteSets, Bags, TLC

VARIABLES
    pc,        \* which step of the running scenario has been taken
    idIn,      \* extractServiceId: the serviceUrl argument
    idOut,     \* extractServiceId: what the call produced
    nameIn,    \* buildToolName: its arguments
    nameOut,   \* buildToolName: the name it returned
    genIn,     \* generateToolsForService: [service, config]
    genOut,    \* generateToolsForService: the tool list it returned
    parseIn,        \* parseMetadata: the document the DOM parser handed back
    parseOut,       \* parseMetadata: what the call produced
    backend,        \* bridge: the metadata each system serves at the moment
    toolMappings,   \* bridge: the Map of registered tool lists
    refreshes,      \* bridge: the bag of refreshSystemTools calls in flight
    initializing,   \* bridge: the initializeTools call
    lastRead,       \* bridge: what the read made in the last step returned
    callIn,         \* a single call of another operation: its arguments
    callOut,        \* a single call of another operation: what it produced
    axiosInstances,   \* client: the systems that have an HTTP client instance
    connectionStates, \* client: the connection state recorded for each system
    csrfTokens,       \* client: the CSRF token stored for each system
    tokenCache,       \* OAuth2Service: the cached token of each cache key
    calls,            \* client and OAuth2Service: the calls in flight, at their awaits
    now,              \* OAuth2Service: what Date.now() returns
    delivered         \* what the call that ended in the last step gave its caller

-----------------------------------------------------------------------------
(* Characters and strings                                                  *)

Upper == {"A","B","C","D","E","F","G","H","I","J","K","L","M",
          "N","O","P","Q","R","S","T","U","V","W","X","Y","Z"}
Lower == {"a","b","c","d","e","f","g","h","i","j","k","l","m",
          "n","o","p","q","r","s","t","u","v","w","x","y","z"}
Digit == {"0","1","2","3","4","5","6","7","8","9"}
Alpha == Upper \cup Lower

\* [a-zA-Z0-9_]
WordChar == Alpha \cup Digit \cup {"_"}
\* [A-Z0-9_]
SapChar == Upper \cup Digit \cup {"_"}

\* String.prototype.substring(0, n)
Substring0(s, n) == IF Len(s) > n THEN SubSeq(s, 1, n) ELSE s

\* s.startsWith(p, i) with a 1-based i
StartsWithAt(s, p, i) ==
    /\ i >= 1
    /\ i + Len(p) - 1 <= Len(s)
    /\ \A k \in 1..Len(p) : s[i + k - 1] = p[k]

\* the length of the longest run of characters of class cls that starts at i
RECURSIVE RunLen(_, _, _)
RunLen(s, i, cls) ==
    IF i > Len(s) \/ s[i] \notin cls THEN 0 ELSE 1 + RunLen(s, i + 1, cls)

\* .replace(/[^a-zA-Z0-9_]/g, '_')
ReplaceNonWord(s) == [i \in 1..Len(s) |-> IF s[i] \in WordChar THEN s[i] ELSE "_"]

\* .replace(/_+/g, '_')
RECURSIVE CollapseUnderscores(_)
CollapseUnderscores(s) ==
    IF Len(s) <= 1 THEN s
    ELSE IF s[1] = "_" /\ s[2] = "_" THEN CollapseUnderscores(Tail(s))
    ELSE <<s[1]>> \o CollapseUnderscores(Tail(s))

\* .replace(/^_|_$/g, ''): one leading and one trailing underscore
TrimUnderscore(s) ==
    LET a == IF Len(s) > 0 /\ s[1] = "_" THEN Tail(s) ELSE s
    IN  IF Len(a) > 0 /\ a[Len(a)] = "_" THEN SubSeq(a, 1, Len(a) - 1) ELSE a

\* the smallest element of a non-empty set of integers
MinOf(S) == CHOOSE x \in S : \A y \in S : x <= y
MaxOf(S) == CHOOSE x \in S : \A y \in S : x >= y

-----------------------------------------------------------------------------
(* extractServiceId (tool-generator.service.ts)                            *)

NoMatch == <<>>

SrvSuffix == <<"_","S","R","V">>

\* /\/([A-Z][A-Z0-9_]*_SRV)/ tried at position i: the capture, or NoMatch.
\* The star is greedy: of the ways to end in _SRV inside the run of
\* [A-Z0-9_] characters, the longest one is taken.
SapMatchAt(s, i) ==
    IF ~(i + 1 <= Len(s) /\ s[i] = "/" /\ s[i + 1] \in Upper) THEN NoMatch
    ELSE LET run == RunLen(s, i + 2, SapChar)
             ks  == {k \in 0..run : StartsWithAt(s, SrvSuffix, i + 2 + k)
                                     /\ k + 4 <= run}
         IN  IF ks = {} THEN NoMatch
             ELSE SubSeq(s, i + 1, i + 1 + MaxOf(ks) + 4)

\* serviceUrl.match(sapPattern)[1]: the leftmost match
SapMatch(s) ==
    LET is == {i \in 1..Len(s) : SapMatchAt(s, i) # NoMatch}
    IN  IF is = {} THEN NoMatch ELSE SapMatchAt(s, MinOf(is))

\* Array.prototype.includes
Includes(seq, x) == \E i \in 1..Len(seq) : seq[i] = x

\* the compaction keeping one digit only
CompactMatchOneDigit(svcName) ==
    IF Len(svcName) = 0 \/ svcName[1] \notin Upper THEN NoMatch
    ELSE LET letters == RunLen(svcName, 2, Upper)
             p       == 2 + letters
             q       == IF p <= Len(svcName) /\ svcName[p] = "_" THEN p + 1 ELSE p
             digits  == RunLen(svcName, q, Digit)
         IN  IF digits = 0 THEN NoMatch
             ELSE <<svcName[1], svcName[q]>>

\* svcName.match(/^([A-Z])[A-Z]*_?(\d+)/): <<letter>> \o digits, or NoMatch
CompactMatch(svcName) ==
    IF Len(svcName) = 0 \/ svcName[1] \notin Upper THEN NoMatch
    ELSE LET letters == RunLen(svcName, 2, Upper)
             p       == 2 + letters
             q       == IF p <= Len(svcName) /\ svcName[p] = "_" THEN p + 1 ELSE p
             digits  == RunLen(svcName, q, Digit)
         IN  IF digits = 0 THEN NoMatch
             ELSE <<svcName[1]>> \o SubSeq(svcName, q, q + digits - 1)

\* rule 1, once sapPattern has matched
SapRuleId(svcName) ==
    IF CompactMatch(svcName) # NoMatch THEN CompactMatch(svcName)
    ELSE Substring0(svcName, 8)

DotSvc == <<".","s","v","c">>

\* /\/([A-Za-z][A-Za-z0-9_]+)\.svc/ tried at position i
SvcMatchAt(s, i) ==
    IF ~(i + 1 <= Len(s) /\ s[i] = "/" /\ s[i + 1] \in Alpha) THEN NoMatch
    ELSE LET run == RunLen(s, i + 2, WordChar)
         IN  IF run >= 1 /\ StartsWithAt(s, DotSvc, i + 2 + run)
             THEN SubSeq(s, i + 1, i + 1 + run)
             ELSE NoMatch

SvcMatch(s) ==
    LET is == {i \in 1..Len(s) : SvcMatchAt(s, i) # NoMatch}
    IN  IF is = {} THEN NoMatch ELSE SvcMatchAt(s, MinOf(is))

SvcSuffix == <<"S","v","c">>

\* rule 2, once svcPattern has matched
SvcRuleId(name) == Substring0(name, 5) \o SvcSuffix

SlashOdataSlash == <<"/","o","d","a","t","a","/">>

\* /\/odata\/([A-Za-z][A-Za-z0-9_]+)/ tried at position i
OdataMatchAt(s, i) ==
    LET j == i + Len(SlashOdataSlash)
    IN  IF ~(StartsWithAt(s, SlashOdataSlash, i) /\ j <= Len(s) /\ s[j] \in Alpha)
        THEN NoMatch
        ELSE LET run == RunLen(s, j + 1, WordChar)
             IN  IF run >= 1 THEN SubSeq(s, j, j + run) ELSE NoMatch

OdataMatch(s) ==
    LET is == {i \in 1..Len(s) : OdataMatchAt(s, i) # NoMatch}
    IN  IF is = {} THEN NoMatch ELSE OdataMatchAt(s, MinOf(is))

\* rule 3, once odataPattern has matched
OdataRuleId(name) == Substring0(name, 8)

HttpsScheme == <<"h","t","t","p","s",":","/","/">>

\* new URL(serviceUrl) succeeds. The inputs of this model are either
\* "https://<host>[/path]" or a string with no scheme at all; the URL
\* constructor throws a TypeError on the latter.
UrlValid(s) ==
    /\ StartsWithAt(s, HttpsScheme, 1)
    /\ RunLen(s, Len(HttpsScheme) + 1, WordChar \cup {".", "-"}) >= 1

\* new URL(serviceUrl).pathname, for a valid URL whose path holds none of
\* the characters the URL parser rewrites (no "?", "#", "%", space or dot
\* segments): the text after the host, "/" when there is none.
UrlPathname(s) ==
    LET h    == Len(HttpsScheme) + RunLen(s, Len(HttpsScheme) + 1, WordChar \cup {".", "-"})
        rest == SubSeq(s, h + 1, Len(s))
    IN  IF rest = <<>> THEN <<"/">> ELSE rest

\* pathname.split('/')
RECURSIVE SplitSlash(_)
SplitSlash(s) ==
    LET n == RunLen(s, 1, {c \in {s[i] : i \in 1..Len(s)} : c # "/"})
    IN  IF n = Len(s) THEN <<s>>
        ELSE <<SubSeq(s, 1, n)>> \o SplitSlash(SubSeq(s, n + 2, Len(s)))

NoiseSegments == { <<"a","p","i">>, <<"o","d","a","t","a">>,
                   <<"s","a","p">>, <<"o","p","u">> }

\* .filter(s => s && !['api','odata','sap','opu'].includes(s))
MeaningfulSegments(segs) ==
    SelectSeq(segs, LAMBDA x : x # <<>> /\ x \notin NoiseSegments)

FallbackId == <<"o","d">>

\* rule 4 (the try block), FallbackId when it yields nothing or URL throws
LastSegmentId(s) ==
    IF ~UrlValid(s) THEN FallbackId
    ELSE LET segments == MeaningfulSegments(SplitSlash(UrlPathname(s)))
         IN  IF Len(segments) = 0 THEN FallbackId
             ELSE LET cleanSegment ==
                          TrimUnderscore(CollapseUnderscores(
                              ReplaceNonWord(segments[Len(segments)])))
                  IN  IF Len(cleanSegment) > 1 THEN Substring0(cleanSegment, 8)
                      ELSE FallbackId

extractServiceId(serviceUrl) ==
    IF SapMatch(serviceUrl) # NoMatch THEN SapRuleId(SapMatch(serviceUrl))
    ELSE IF SvcMatch(serviceUrl) # NoMatch THEN SvcRuleId(SvcMatch(serviceUrl))
    ELSE IF OdataMatch(serviceUrl) # NoMatch THEN OdataRuleId(OdataMatch(serviceUrl))
    ELSE LastSegmentId(serviceUrl)

\* which of the five rules decides the id of serviceUrl
RuleOf(serviceUrl) ==
    IF SapMatch(serviceUrl) # NoMatch THEN 1
    ELSE IF SvcMatch(serviceUrl) # NoMatch THEN 2
    ELSE IF OdataMatch(serviceUrl) # NoMatch THEN 3
    ELSE IF LastSegmentId(serviceUrl) # FallbackId THEN 4
    ELSE 5

-----------------------------------------------------------------------------
(* Inputs of the service-id scenario                                       *)

\* the most path segments of an enumerated URL
MaxSegs == 2

HostX == HttpsScheme \o <<"x">>

SegZodd      == <<"Z","O","D","D","_","0","0","0","_","S","R","V">>
SegApiBp     == <<"A","P","I","_","B","U","S","I","N","E","S","S","_",
                  "P","A","R","T","N","E","R","_","S","R","V">>
SegLongDigit == <<"Z","_","1","2","3","4","5","6","7","8","9","_","S","R","V">>
SegNorthSvc  == <<"N","o","r","t","h","w","i","n","d",".","s","v","c">>
SegNorthwind == <<"N","o","r","t","h","w","i","n","d">>
SegSap       == <<"s","a","p">>
SegOpu       == <<"o","p","u">>
SegOdata     == <<"o","d","a","t","a">>
SegV4        == <<"V","4">>
SegDashed    == <<"m","y","-","s","e","r","v","i","c","e","-","1">>
SegDash      == <<"-">>

UrlSegments == { SegZodd, SegApiBp, SegLongDigit, SegNorthSvc, SegNorthwind,
                 SegSap, SegOdata, SegV4, SegDashed, SegDash }

RECURSIVE JoinPath(_)
JoinPath(segs) ==
    IF segs = <<>> THEN <<>> ELSE <<"/">> \o Head(segs) \o JoinPath(Tail(segs))

RECURSIVE SeqsUpTo(_, _)
SeqsUpTo(S, n) ==
    IF n = 0 THEN {<<>>}
    ELSE LET shorter == SeqsUpTo(S, n - 1)
         IN  shorter \cup {Append(q, x) : q \in shorter, x \in S}

\* "https://x/sap/opu/odata/sap/ZODD_000_SRV"
SapExampleUrl == HostX \o JoinPath(<<SegSap, SegOpu, SegOdata, SegSap, SegZodd>>)
\* "https://x/V4/Northwind/Northwind.svc"
NorthwindExampleUrl == HostX \o JoinPath(<<SegV4, SegNorthwind, SegNorthSvc>>)

ServiceUrls ==
    {SapExampleUrl, NorthwindExampleUrl}
    \cup {base \o JoinPath(p) : base \in {HostX, <<>>}, p \in SeqsUpTo(UrlSegments, MaxSegs)}

-----------------------------------------------------------------------------
(* buildToolName (tool-generator.service.ts)                               *)

OpFilter == <<"f","i","l","t","e","r">>
OpSearch == <<"s","e","a","r","c","h">>
OpGet    == <<"g","e","t">>
OpCount  == <<"c","o","u","n","t">>
OpCreate == <<"c","r","e","a","t","e">>
OpUpdate == <<"u","p","d","a","t","e">>
OpDelete == <<"d","e","l","e","t","e">>
OpFunc   == <<"f","u","n","c">>
OpAction == <<"a","c","t","i","o","n">>

\* the operation words the generate*Tool methods pass to buildToolName
OperationWords == {OpFilter, OpSearch, OpGet, OpCount, OpCreate, OpUpdate,
                   OpDelete, OpFunc, OpAction}

\* a shortening table that maps two operations to one word
getShortenedOperationClash(operation) ==
    IF operation = OpUpdate \/ operation = OpDelete THEN <<"u","p","d">>
    ELSE operation

\* shortMap[operation] || operation
getShortenedOperation(operation) ==
    IF operation = OpUpdate THEN <<"u","p","d">>
    ELSE IF operation = OpDelete THEN <<"d","e","l">>
    ELSE operation

Underscore == <<"_">>
ForInfix   == <<"_","f","o","r","_">>

\* the template chosen by toolPrefix / toolPostfix; an empty string is
\* falsy, so an empty prefix, postfix or service part counts as absent
RawToolName(operation, entityOrFunction, serviceId, config) ==
    LET opName      == IF config.shrinkNames THEN getShortenedOperation(operation)
                       ELSE operation
        servicePart == IF config.useServiceId THEN serviceId ELSE <<>>
    IN  IF config.toolPrefix # <<>>
        THEN config.toolPrefix \o Underscore \o opName \o Underscore \o entityOrFunction
             \o (IF servicePart # <<>> THEN Underscore \o servicePart ELSE <<>>)
        ELSE IF config.toolPostfix # <<>>
        THEN opName \o Underscore \o entityOrFunction
             \o (IF servicePart # <<>> THEN ForInfix \o servicePart ELSE <<>>)
             \o Underscore \o config.toolPostfix
        ELSE opName \o Underscore \o entityOrFunction
             \o (IF servicePart # <<>> THEN ForInfix \o servicePart ELSE <<>>)

TruncateOneTooLong(toolName, maxToolNameLength) ==
    Substring0(toolName, maxToolNameLength + 1)

\* if (toolName.length > max) toolName = toolName.substring(0, max)
TruncateName(toolName, maxToolNameLength) ==
    Substring0(toolName, maxToolNameLength)

\* .replace(/[^a-zA-Z0-9_]/g, '_').replace(/_+/g, '_')
SanitizeName(toolName) == CollapseUnderscores(ReplaceNonWord(toolName))

buildToolName(operation, entityOrFunction, serviceId, config) ==
    SanitizeName(TruncateName(
        RawToolName(operation, entityOrFunction, serviceId, config),
        config.maxToolNameLength))

-----------------------------------------------------------------------------
(* Inputs of the tool-name scenario                                        *)

\* the largest maxToolNameLength tried; the longest raw name below has
\* more characters, so every limit up to it truncates some name
MaxNameLimit == 10

NameProducts == <<"P","r","o","d","u","c","t","s">>
NameDotted   == <<"S",".","T">>
NameUnder    == <<"S","_","T">>
NameSpaced   == <<"O","r","d","e","r"," ","-","D","e","t","a","i","l","s">>

TargetNames == {<<"S">>, NameDotted, NameUnder, NameProducts, NameSpaced}

IdNW == <<"N","W">>

NamePrefixes  == {<<>>, <<"m","c","p">>}
NamePostfixes == {<<>>, <<"v","-","1">>}

NamingConfigs(limits) ==
    [ toolPrefix : NamePrefixes, toolPostfix : NamePostfixes,
      useServiceId : BOOLEAN, shrinkNames : BOOLEAN,
      maxToolNameLength : limits ]

NameInputs ==
    [ operation : OperationWords, entityOrFunction : TargetNames,
      serviceId : {IdNW}, config : NamingConfigs(1..MaxNameLimit) ]

-----------------------------------------------------------------------------
(* The metadata model handed to the generator (system.types.ts) and the    *)
(* parser rule that builds an entity (metadata-parser.service.ts)          *)

\* parseEntityType: the key names are the PropertyRef names in document
\* order, and each property is marked isKey when its name is among them
ParsedEntity(name, keyRefs, propDecls) ==
    [ name          |-> name,
      keyProperties |-> keyRefs,
      properties    |-> [i \in 1..Len(propDecls) |->
                            [ name     |-> propDecls[i].name,
                              nullable |-> propDecls[i].nullable,
                              isKey    |-> Includes(keyRefs, propDecls[i].name) ]] ]

-----------------------------------------------------------------------------
(* JavaScript object keys                                                  *)

DigitOrder == <<"0","1","2","3","4","5","6","7","8","9">>

\* a canonical array index: such keys are listed first, in numeric order.
\* Property names are atoms here, and the one-digit ones are the indices.
IsArrayIndex(k) == k \in Digit

\* the first occurrence of each element, in order
RECURSIVE KeepFirst(_)
KeepFirst(seq) ==
    IF seq = <<>> THEN <<>>
    ELSE LET init == KeepFirst(SubSeq(seq, 1, Len(seq) - 1))
             last == seq[Len(seq)]
         IN  IF Includes(init, last) THEN init ELSE Append(init, last)

\* Object.keys(o) of an object whose keys were assigned in the order given:
\* array indices ascending, then the other keys in order of first assignment
ObjectKeys(assigned) ==
    LET ks == KeepFirst(assigned)
    IN  SelectSeq(DigitOrder, LAMBDA d : Includes(ks, d))
        \o SelectSeq(ks, LAMBDA k : ~IsArrayIndex(k))

-----------------------------------------------------------------------------
(* Tool generation (tool-generator.service.ts)                             *)

\* expandOperations: the first 'R' becomes 'S','F','G'; duplicates removed
expandOperations(operations) ==
    LET idx == IF Includes(operations, "R")
               THEN MinOf({i \in 1..Len(operations) : operations[i] = "R"})
               ELSE 0
    IN  IF idx = 0 THEN KeepFirst(operations)
        ELSE KeepFirst(SubSeq(operations, 1, idx - 1) \o <<"S","F","G">>
                       \o SubSeq(operations, idx + 1, Len(operations)))

\* claudeCodeFriendly ? '' : '$', applied to a query-option name
OptionKey(claudeCodeFriendly, option) ==
    IF claudeCodeFriendly THEN option
    ELSE CASE option = "filter"  -> "$filter"
           [] option = "select"  -> "$select"
           [] option = "expand"  -> "$expand"
           [] option = "orderby" -> "$orderby"
           [] option = "top"     -> "$top"
           [] option = "skip"    -> "$skip"
           [] option = "count"   -> "$count"
           [] option = "format"  -> "$format"

\* the keys of generateQueryParameterSchema, in the order it assigns them
QueryParameterKeys(claudeCodeFriendly) ==
    [i \in 1..8 |-> OptionKey(claudeCodeFriendly,
        <<"filter","select","expand","orderby","top","skip","count","format">>[i])]

\* the key of generateSelectProperties
SelectKey(claudeCodeFriendly) == OptionKey(claudeCodeFriendly, "select")

\* properties.map(p => p.name)
PropertyNames(properties) == [i \in 1..Len(properties) |-> properties[i].name]

\* entity.properties.find(p => p.name === keyProp) finds something
HasProperty(entity, keyProp) ==
    \E i \in 1..Len(entity.properties) : entity.properties[i].name = keyProp

\* generateKeyProperties: the keys of the object it returns, as assigned
generateKeyProperties(entity) ==
    SelectSeq(entity.keyProperties, LAMBDA k : HasProperty(entity, k))

generateEntityPropertiesSkippingKeys(properties, isUpdate) ==
    LET kept == SelectSeq(properties, LAMBDA p : ~p.isKey)
    IN  [ properties |-> PropertyNames(kept),
          required   |-> IF isUpdate THEN <<>>
                         ELSE PropertyNames(SelectSeq(kept, LAMBDA p : ~p.nullable)) ]

\* generateEntityProperties: key properties are skipped for an update only;
\* a property is required when it is not nullable and this is no update
generateEntityProperties(properties, isUpdate) ==
    LET kept == SelectSeq(properties, LAMBDA p : ~(p.isKey /\ isUpdate))
    IN  [ properties |-> PropertyNames(kept),
          required   |-> IF isUpdate THEN <<>>
                         ELSE PropertyNames(SelectSeq(kept, LAMBDA p : ~p.nullable)) ]

\* generateFunctionParameters
generateFunctionParameters(parameters) ==
    [ properties |-> PropertyNames(parameters),
      required   |-> PropertyNames(SelectSeq(parameters, LAMBDA p : ~p.nullable)) ]

NoName == <<>>

\* a GeneratedTool: inputSchema.properties is kept as its list of keys
\* (Object.keys order), inputSchema.required as the list, and the enum of
\* the select option as selectEnum
Tool(name, operation, entitySet, functionName, assigned, required, selectEnum) ==
    [ name         |-> name,
      operation    |-> operation,
      entitySet    |-> entitySet,
      functionName |-> functionName,
      properties   |-> ObjectKeys(assigned),
      required     |-> required,
      selectEnum   |-> selectEnum ]

generateFilterTool(entitySet, entity, serviceId, config) ==
    Tool(buildToolName(OpFilter, entitySet.name, serviceId, config),
         "filter", entitySet.name, NoName,
         QueryParameterKeys(config.claudeCodeFriendly)
             \o <<SelectKey(config.claudeCodeFriendly)>>,
         <<>>, PropertyNames(entity.properties))

generateSearchTool(entitySet, entity, serviceId, config) ==
    Tool(buildToolName(OpSearch, entitySet.name, serviceId, config),
         "search", entitySet.name, NoName,
         <<"search">> \o QueryParameterKeys(config.claudeCodeFriendly)
             \o <<SelectKey(config.claudeCodeFriendly)>>,
         <<"search">>, PropertyNames(entity.properties))

generateGetTool(entitySet, entity, serviceId, config) ==
    Tool(buildToolName(OpGet, entitySet.name, serviceId, config),
         "get", entitySet.name, NoName,
         generateKeyProperties(entity)
             \o <<SelectKey(config.claudeCodeFriendly), "expand">>,
         ObjectKeys(generateKeyProperties(entity)),
         PropertyNames(entity.properties))

generateCountTool(entitySet, entity, serviceId, config) ==
    Tool(buildToolName(OpCount, entitySet.name, serviceId, config),
         "count", entitySet.name, NoName,
         <<"filter","search">>, <<>>, <<>>)

generateCreateTool(entitySet, entity, serviceId, config) ==
    Tool(buildToolName(OpCreate, entitySet.name, serviceId, config),
         "create", entitySet.name, NoName,
         generateEntityProperties(entity.properties, FALSE).properties,
         generateEntityProperties(entity.properties, FALSE).required,
         <<>>)

generateUpdateTool(entitySet, entity, serviceId, config) ==
    Tool(buildToolName(OpUpdate, entitySet.name, serviceId, config),
         "update", entitySet.name, NoName,
         generateKeyProperties(entity)
             \o generateEntityProperties(entity.properties, TRUE).properties,
         ObjectKeys(generateKeyProperties(entity)),
         <<>>)

generateDeleteTool(entitySet, entity, serviceId, config) ==
    Tool(buildToolName(OpDelete, entitySet.name, serviceId, config),
         "delete", entitySet.name, NoName,
         generateKeyProperties(entity),
         ObjectKeys(generateKeyProperties(entity)),
         <<>>)

CreateEnabledIgnoringFlag(expandedOps, entitySet) == Includes(expandedOps, "C")

\* expandedOps.includes('C') && entitySet.creatable
CreateEnabled(expandedOps, entitySet) ==
    Includes(expandedOps, "C") /\ entitySet.creatable

generateEntitySetTools(entitySet, entity, serviceId, config) ==
    LET expandedOps == expandOperations(config.enabledOperations)
    IN  (IF Includes(expandedOps, "F")
         THEN <<generateFilterTool(entitySet, entity, serviceId, config)>> ELSE <<>>)
     \o (IF Includes(expandedOps, "S") /\ entitySet.searchable
         THEN <<generateSearchTool(entitySet, entity, serviceId, config)>> ELSE <<>>)
     \o (IF Includes(expandedOps, "G")
         THEN <<generateGetTool(entitySet, entity, serviceId, config)>> ELSE <<>>)
     \o (IF Includes(expandedOps, "F") /\ entitySet.countable
         THEN <<generateCountTool(entitySet, entity, serviceId, config)>> ELSE <<>>)
     \o (IF CreateEnabled(expandedOps, entitySet)
         THEN <<generateCreateTool(entitySet, entity, serviceId, config)>> ELSE <<>>)
     \o (IF Includes(expandedOps, "U") /\ entitySet.updatable
         THEN <<generateUpdateTool(entitySet, entity, serviceId, config)>> ELSE <<>>)
     \o (IF Includes(expandedOps, "D") /\ entitySet.deletable
         THEN <<generateDeleteTool(entitySet, entity, serviceId, config)>> ELSE <<>>)

generateFunctionTools(func, serviceId, config) ==
    IF ~Includes(config.enabledOperations, "A") THEN <<>>
    ELSE << Tool(buildToolName(OpFunc, func.name, serviceId, config),
                 "function", NoName, func.name,
                 generateFunctionParameters(func.parameters).properties,
                 generateFunctionParameters(func.parameters).required,
                 <<>>) >>

generateActionTools(action, serviceId, config) ==
    IF ~Includes(config.enabledOperations, "A") THEN <<>>
    ELSE << Tool(buildToolName(OpAction, action.name, serviceId, config),
                 "action", NoName, action.name,
                 generateFunctionParameters(action.parameters).properties,
                 generateFunctionParameters(action.parameters).required,
                 <<>>) >>

\* service.metadata.entities.find(e => e.name === entitySet.entityType)
\* finds an entity
Resolves(metadata, entitySet) ==
    \E i \in 1..Len(metadata.entities) :
        metadata.entities[i].name = entitySet.entityType

ResolvedEntity(metadata, entitySet) ==
    metadata.entities[MinOf({i \in 1..Len(metadata.entities) :
        metadata.entities[i].name = entitySet.entityType})]

\* a loop that numbers the service id with the count of entity sets
ToolsForEntitySetNumbered(metadata, entitySet, serviceId, config) ==
    IF Resolves(metadata, entitySet)
    THEN generateEntitySetTools(entitySet, ResolvedEntity(metadata, entitySet),
                                serviceId \o <<DigitOrder[Len(metadata.entitySets) + 1]>>,
                                config)
    ELSE <<>>

\* an unresolved entity set served with the tools that need no entity
ToolsForEntitySetGeneric(metadata, entitySet, serviceId, config) ==
    IF Resolves(metadata, entitySet)
    THEN generateEntitySetTools(entitySet, ResolvedEntity(metadata, entitySet),
                                serviceId, config)
    ELSE generateEntitySetTools(entitySet, ParsedEntity(entitySet.entityType, <<>>, <<>>),
                                serviceId, [config EXCEPT !.enabledOperations = <<"F">>])

\* one turn of the entity-set loop: `continue` when no entity is found
ToolsForEntitySet(metadata, entitySet, serviceId, config) ==
    IF Resolves(metadata, entitySet)
    THEN generateEntitySetTools(entitySet, ResolvedEntity(metadata, entitySet),
                                serviceId, config)
    ELSE <<>>

RECURSIVE Flatten(_)
Flatten(seqs) == IF seqs = <<>> THEN <<>> ELSE Head(seqs) \o Flatten(Tail(seqs))

generateToolsForService(service, config) ==
    IF ~service.hasMetadata THEN <<>>
    ELSE LET serviceId == extractServiceId(service.url)
             md        == service.metadata
         IN  Flatten([i \in 1..Len(md.entitySets) |->
                        ToolsForEntitySet(md, md.entitySets[i], serviceId, config)])
          \o Flatten([i \in 1..Len(md.functions) |->
                        generateFunctionTools(md.functions[i], serviceId, config)])
          \o Flatten([i \in 1..Len(md.actions) |->
                        generateActionTools(md.actions[i], serviceId, config)])

-----------------------------------------------------------------------------
(* Inputs of the tool-generation scenario                                  *)

\* the most PropertyRef elements and Property elements of an enumerated
\* entity type, entity sets of an enumerated service, and letters of an
\* enumerated enabledOperations list
MaxKeys  == 2
MaxProps == 2
MaxSets  == 2
MaxOps   == 2

\* "1" is an array index to JavaScript; "z" names no declared property
PropNames == {"b", "1"}
KeyNames  == PropNames \cup {"z"}
PropDecls == [name : PropNames, nullable : BOOLEAN]

EntityShapes ==
    { ParsedEntity("E", k, p) : k \in SeqsUpTo(KeyNames, MaxKeys),
                                p \in SeqsUpTo(PropDecls, MaxProps) }

\* key b, and a nullable property c
PlainEntity ==
    ParsedEntity("E", <<"b">>,
                 << [name |-> "b", nullable |-> FALSE],
                    [name |-> "c", nullable |-> TRUE] >>)

Capabilities ==
    [ creatable : BOOLEAN, updatable : BOOLEAN, deletable : BOOLEAN,
      searchable : BOOLEAN, countable : BOOLEAN ]

EntitySet(name, entityType, caps) ==
    [ name |-> name, entityType |-> entityType,
      creatable |-> caps.creatable, updatable |-> caps.updatable,
      deletable |-> caps.deletable, searchable |-> caps.searchable,
      countable |-> caps.countable ]

AllCapabilities ==
    [ creatable |-> TRUE, updatable |-> TRUE, deletable |-> TRUE,
      searchable |-> TRUE, countable |-> TRUE ]

\* entity sets whose names differ, or differ only until sanitised; one
\* whose entity type "X" is not among the parsed entities; and one that
\* is not creatable
EntitySetPool ==
    { EntitySet(n, "E", AllCapabilities) : n \in {<<"S">>, NameDotted, NameUnder} }
    \cup { EntitySet(NameDotted, "X", AllCapabilities),
           EntitySet(<<"S">>, "E", [AllCapabilities EXCEPT !.creatable = FALSE]) }

FunctionPool ==
    { <<>>,
      << [ name |-> NameUnder,
           parameters |-> << [name |-> "p", nullable |-> FALSE],
                             [name |-> "q", nullable |-> TRUE] >> ] >> }

Metadata(entities, entitySets, functions, actions) ==
    [ entities |-> entities, entitySets |-> entitySets,
      functions |-> functions, actions |-> actions ]

Service(url, metadata) ==
    [ url |-> url, hasMetadata |-> TRUE, metadata |-> metadata ]

ServiceWithoutMetadata(url) ==
    [ url |-> url, hasMetadata |-> FALSE,
      metadata |-> Metadata(<<>>, <<>>, <<>>, <<>>) ]

GenConfig(operations, naming, claudeCodeFriendly) ==
    [ enabledOperations  |-> operations,
      toolPrefix         |-> naming.toolPrefix,
      toolPostfix        |-> naming.toolPostfix,
      useServiceId       |-> naming.useServiceId,
      shrinkNames        |-> naming.shrinkNames,
      maxToolNameLength  |-> naming.maxToolNameLength,
      claudeCodeFriendly |-> claudeCodeFriendly ]

PlainNaming ==
    [ toolPrefix |-> <<>>, toolPostfix |-> <<>>, useServiceId |-> TRUE,
      shrinkNames |-> FALSE, maxToolNameLength |-> 64 ]

OperationLetters == {"C", "R", "U", "D", "F", "S", "G", "A"}

\* every shape of one entity type, behind one entity set, all operations on
EntityInputs ==
    { [ service |-> Service(NorthwindExampleUrl,
                            Metadata(<<e>>, <<EntitySet(<<"S">>, "E", AllCapabilities)>>,
                                     <<>>, <<>>)),
        config  |-> GenConfig(<<"C","R","U","D">>, PlainNaming, ccf) ] :
      e \in EntityShapes, ccf \in BOOLEAN }

\* several entity sets, with or without a function and an action, under
\* every naming option
NamingInputs ==
    { [ service |-> Service(NorthwindExampleUrl,
                            Metadata(<<PlainEntity>>, sets, fs, fs)),
        config  |-> GenConfig(<<"C","R","U","D","A">>, n, TRUE) ] :
      sets \in SeqsUpTo(EntitySetPool, MaxSets),
      fs \in FunctionPool,
      n \in NamingConfigs({MaxNameLimit, 64}) }

\* one entity set under every capability flag and enabledOperations list
GatingInputs ==
    { [ service |-> Service(SapExampleUrl,
                            Metadata(<<PlainEntity>>, <<EntitySet(NameProducts, "E", caps)>>,
                                     <<>>, <<>>)),
        config  |-> GenConfig(ops, PlainNaming, FALSE) ] :
      caps \in Capabilities, ops \in SeqsUpTo(OperationLetters, MaxOps) }

GenInputs ==
    EntityInputs \cup NamingInputs \cup GatingInputs
    \cup { [ service |-> ServiceWithoutMetadata(SapExampleUrl),
             config  |-> GenConfig(<<"R">>, PlainNaming, FALSE) ] }

-----------------------------------------------------------------------------
(* Metadata parsing (metadata-parser.service.ts)                           *)
(*                                                                         *)
(* The parser works on the DOM that xmldom's DOMParser hands back.  That   *)
(* library is outside the repository, so what it returns for a text is an  *)
(* input here: no document, a document without a document element, or a   *)
(* tree.  wellFormed records whether the text was well-formed XML; a tree  *)
(* may come back either way.  An attribute that is absent or empty is "".  *)

MapSeq(f(_), s) == [i \in 1..Len(s) |-> f(s[i])]

\* s.includes(p)
IncludesText(s, p) == \E i \in 1..(Len(s) + 1) : StartsWithAt(s, p, i)

DomNone  == "none"
DomEmpty == "empty"
DomTree  == "tree"

Edmx2007Fragment == <<"2","0","0","7","/","0","6","/","e","d","m","x">>
Edmx2009Fragment == <<"2","0","0","9","/","1","1","/","e","d","m","x">>
Edm2006Fragment  == <<"e","d","m","/","2","0","0","6","/","0","4">>
Version20 == <<"2",".","0">>
Version30 == <<"3",".","0">>
Version40 == <<"4",".","0">>
V4Prefix  == <<"4",".">>

\* detectODataVersion; a null namespaceURI or Version attribute is <<>>
detectODataVersion(doc) ==
    IF IncludesText(doc.namespaceURI, Edmx2007Fragment) THEN Version20
    ELSE IF IncludesText(doc.namespaceURI, Edmx2009Fragment) THEN Version30
    ELSE IF IncludesText(doc.namespaceURI, Edm2006Fragment) \/ doc.Version = Version40
         THEN Version40
    ELSE IF doc.Version # <<>> THEN doc.Version
    ELSE Version20

\* parseProperty and parseParameter: null (no element here) without a Name
\* or a Type; nullable unless Nullable="false"
parseProperty(el) ==
    IF el.Name = "" \/ el.Type = "" THEN <<>>
    ELSE << [name |-> el.Name, nullable |-> el.Nullable # "false"] >>

parseParameter(el) == parseProperty(el)

\* a parser that has no test of the Name
parseEntityTypeUnnamed(el) ==
    << ParsedEntity(el.Name,
                    SelectSeq(el.keyRefs, LAMBDA k : k # ""),
                    Flatten(MapSeq(parseProperty, el.properties))) >>

\* parseEntityType: null without a Name
parseEntityType(el) ==
    IF el.Name = "" THEN <<>>
    ELSE << ParsedEntity(el.Name,
                         SelectSeq(el.keyRefs, LAMBDA k : k # ""),
                         Flatten(MapSeq(parseProperty, el.properties))) >>

\* entityType.split('.').pop() || entityType, on the dot-separated pieces
RECURSIVE JoinDots(_)
JoinDots(pieces) ==
    IF Len(pieces) = 1 THEN pieces[1]
    ELSE pieces[1] \o "." \o JoinDots(Tail(pieces))

WithoutNamespace(pieces) ==
    IF pieces[Len(pieces)] # "" THEN pieces[Len(pieces)] ELSE JoinDots(pieces)

\* parseEntitySet: null without a Name or an EntityType; every capability
\* is assumed unless its sap: annotation says "false"
parseEntitySet(el) ==
    IF el.Name = "" \/ el.EntityType = <<>> THEN <<>>
    ELSE << [ name       |-> el.Name,
              entityType |-> WithoutNamespace(el.EntityType),
              creatable  |-> el.sapCreatable # "false",
              updatable  |-> el.sapUpdatable # "false",
              deletable  |-> el.sapDeletable # "false",
              searchable |-> el.sapSearchable # "false",
              countable  |-> TRUE ] >>

\* parseFunctionImport, parseFunction and parseAction: null without a Name
parseFunctionImport(el) ==
    IF el.Name = "" THEN <<>>
    ELSE << [ name       |-> el.Name,
              parameters |-> Flatten(MapSeq(parseParameter, el.parameters)) ] >>

parseFunction(el) == parseFunctionImport(el)

parseAction(el) == parseFunctionImport(el)

EntitiesOfSchema(schema) == Flatten(MapSeq(parseEntityType, schema.entityTypes))

EntitySetsOfSchema(schema) ==
    Flatten(MapSeq(LAMBDA c : Flatten(MapSeq(parseEntitySet, c.entitySets)),
                   schema.containers))

FunctionImportsOfSchema(schema) ==
    Flatten(MapSeq(LAMBDA c : Flatten(MapSeq(parseFunctionImport, c.functionImports)),
                   schema.containers))

FunctionsOfSchema(schema) ==
    Flatten(MapSeq(LAMBDA c : Flatten(MapSeq(parseFunction, c.functions)),
                   schema.containers))

ActionsOfSchema(schema) ==
    Flatten(MapSeq(LAMBDA c : Flatten(MapSeq(parseAction, c.actions)),
                   schema.containers))

ServiceMetadata(entities, entitySets, functions, actions, version) ==
    [ entities |-> entities, entitySets |-> entitySets,
      functions |-> functions, actions |-> actions, version |-> version ]

\* parseODataV2: entity types, entity sets and function imports of every
\* Schema element; no Schema element, nothing pushed
parseODataV2(doc, version) ==
    ServiceMetadata(Flatten(MapSeq(EntitiesOfSchema, doc.schemas)),
                    Flatten(MapSeq(EntitySetsOfSchema, doc.schemas)),
                    Flatten(MapSeq(FunctionImportsOfSchema, doc.schemas)),
                    <<>>, version)

\* parseODataV4: entity types, entity sets, functions and actions
parseODataV4(doc, version) ==
    ServiceMetadata(Flatten(MapSeq(EntitiesOfSchema, doc.schemas)),
                    Flatten(MapSeq(EntitySetsOfSchema, doc.schemas)),
                    Flatten(MapSeq(FunctionsOfSchema, doc.schemas)),
                    Flatten(MapSeq(ActionsOfSchema, doc.schemas)),
                    version)

Threw(error)    == [threw |-> TRUE,  error |-> error, value |-> <<>>]
Returned(value) == [threw |-> FALSE, error |-> "",    value |-> value]

InvalidXml == "Invalid XML metadata document"
\* doc.documentElement is null and .tagName is read from it
NullDereference == "TypeError"

parseMetadata(doc) ==
    IF doc.dom = DomNone THEN Threw(InvalidXml)
    ELSE IF doc.dom = DomEmpty THEN Threw(NullDereference)
    ELSE IF doc.rootTag = "parsererror" THEN Threw(InvalidXml)
    ELSE IF StartsWithAt(detectODataVersion(doc), V4Prefix, 1)
         THEN Returned(parseODataV4(doc, detectODataVersion(doc)))
    ELSE Returned(parseODataV2(doc, detectODataVersion(doc)))

-----------------------------------------------------------------------------
(* The documents parseMetadata is applied to                               *)

MaxSchemas == 2

PropertyElement(name, type, nullable) ==
    [Name |-> name, Type |-> type, Nullable |-> nullable]

EntityTypeElement(name, keyRefs, properties) ==
    [Name |-> name, keyRefs |-> keyRefs, properties |-> properties]

EntitySetElement(name, entityType, sapCreatable) ==
    [ Name |-> name, EntityType |-> entityType, sapCreatable |-> sapCreatable,
      sapUpdatable |-> "", sapDeletable |-> "true", sapSearchable |-> "false" ]

OperationElement(name, parameters) == [Name |-> name, parameters |-> parameters]

ContainerElement(entitySets, functionImports, functions, actions) ==
    [ entitySets |-> entitySets, functionImports |-> functionImports,
      functions |-> functions, actions |-> actions ]

SchemaElement(namespace, entityTypes, containers) ==
    [Namespace |-> namespace, entityTypes |-> entityTypes, containers |-> containers]

EmptySchema == SchemaElement("NS", <<>>, <<>>)

\* <EntityType Name="E"> with key b and properties b and c, and a container
\* with <EntitySet Name="S" EntityType="NS.E" sap:creatable="false"> and a
\* FunctionImport, a Function and an Action
OrdinarySchema ==
    SchemaElement("NS",
        << EntityTypeElement("E", <<"b">>,
               << PropertyElement("b", "Edm.String", "false"),
                  PropertyElement("c", "Edm.Int32", "") >>) >>,
        << ContainerElement(
               << EntitySetElement("S", <<"NS", "E">>, "false") >>,
               << OperationElement("F", << PropertyElement("p", "Edm.String", "false") >>) >>,
               << OperationElement("G", <<>>) >>,
               << OperationElement("A", << PropertyElement("q", "", "") >>) >>) >>)

\* elements that lack what their parser asks for: an EntityType and an
\* EntitySet without a Name, an EntitySet without an EntityType
NamelessSchema ==
    SchemaElement("",
        << EntityTypeElement("", <<"b">>, << PropertyElement("b", "Edm.String", "") >>) >>,
        << ContainerElement(
               << EntitySetElement("", <<"NS", "E">>, ""),
                  EntitySetElement("S", <<>>, "") >>,
               << OperationElement("", <<>>) >>, <<>>, <<>>) >>)

\* a key that names no property, a property without a Type, and an
\* EntityType attribute that ends in a dot
LooseSchema ==
    SchemaElement("NS",
        << EntityTypeElement("E", <<"z", "">>,
               << PropertyElement("b", "", ""),
                  PropertyElement("c", "Edm.String", "") >>) >>,
        << ContainerElement(
               << EntitySetElement("T", <<"NS", "">>, "true") >>,
               <<>>, <<>>, <<>>) >>)

\* an <EntityType> without a Name between two that have one
MixedSchema ==
    SchemaElement("NS",
        << EntityTypeElement("E", <<"b">>, << PropertyElement("b", "Edm.String", "false") >>),
           EntityTypeElement("", <<"c">>, << PropertyElement("c", "Edm.String", "") >>),
           EntityTypeElement("H", <<"d">>, << PropertyElement("d", "Edm.Int32", "false") >>) >>,
        << ContainerElement(
               << EntitySetElement("S", <<"NS", "E">>, ""),
                  EntitySetElement("T", <<"NS", "H">>, "") >>,
               << OperationElement("F", <<>>) >>, <<>>, <<>>) >>)

SchemaPool == {EmptySchema, OrdinarySchema, NamelessSchema, LooseSchema, MixedSchema}

NoNamespace   == <<>>
Edmx2007Uri   == <<"h","t","t","p",":","/","/","s","c","h","e","m","a","s",".","m","i","c","r","o","s","o","f","t",".","c","o","m","/","a","d","o","/","2","0","0","7","/","0","6","/","e","d","m","x">>
Edmx2009Uri   == <<"h","t","t","p",":","/","/","s","c","h","e","m","a","s",".","m","i","c","r","o","s","o","f","t",".","c","o","m","/","a","d","o","/","2","0","0","9","/","1","1","/","e","d","m","x">>
OasisEdmxUri  == <<"h","t","t","p",":","/","/","d","o","c","s",".","o","a","s","i","s","-","o","p","e","n",".","o","r","g","/","o","d","a","t","a","/","n","s","/","e","d","m","x">>

NamespaceUris == {NoNamespace, Edmx2007Uri, Edmx2009Uri, OasisEdmxUri}
VersionAttributes == {<<>>, <<"1",".","0">>, Version40}
RootTags == {"edmx:Edmx", "root", "parsererror"}

Document(dom, wellFormed, rootTag, namespaceURI, version, schemas) ==
    [ dom |-> dom, wellFormed |-> wellFormed, rootTag |-> rootTag,
      namespaceURI |-> namespaceURI, Version |-> version, schemas |-> schemas ]

\* a text that is not XML at all: no document, or one without an element
UnparsedDocuments ==
    { Document(d, FALSE, "", NoNamespace, <<>>, <<>>) : d \in {DomNone, DomEmpty} }

TreeDocuments ==
    { Document(DomTree, w, t, n, v, s) :
        w \in BOOLEAN, t \in RootTags, n \in NamespaceUris,
        v \in VersionAttributes, s \in SeqsUpTo(SchemaPool, MaxSchemas) }

Documents == UnparsedDocuments \cup TreeDocuments

-----------------------------------------------------------------------------
(* Tool registration (odata-jsonrpc-bridge.service.ts with                 *)
(* metadata-discovery.service.ts)                                          *)
(*                                                                         *)
(* JavaScript runs one callback at a time, so a step is the code between   *)
(* two awaits.  A Map is kept as the list of its values in insertion       *)
(* order, each value carrying its key as systemId.                         *)

UpperLetters == <<"A","B","C","D","E","F","G","H","I","J","K","L","M","N","O","P","Q","R","S","T","U","V","W","X","Y","Z">>
LowerLetters == <<"a","b","c","d","e","f","g","h","i","j","k","l","m","n","o","p","q","r","s","t","u","v","w","x","y","z">>

\* String.prototype.toLowerCase on the characters used here
ToLowerCase(s) ==
    [ i \in 1..Len(s) |->
        IF s[i] \in Upper
        THEN LowerLetters[CHOOSE k \in 1..Len(UpperLetters) : UpperLetters[k] = s[i]]
        ELSE s[i] ]

JsonRpcTool(name, fields) == [name |-> name, fields |-> fields]

\* metadata.entities.find(e => e.name === entitySet.entityType.split('.').pop())
\* and the fields generateEntityQuerySchema lists when an entity was found
AvailableFields(metadata, entitySet) ==
    LET wanted == entitySet.entityType[Len(entitySet.entityType)]
        found  == SelectSeq(metadata.entities, LAMBDA e : e.name = wanted)
    IN  IF found = <<>> THEN <<>> ELSE found[1].properties

EntitySetJsonRpcTools(systemId, metadata, entitySet) ==
    << JsonRpcTool(systemId \o <<"_","q","u","e","r","y","_">> \o ToLowerCase(entitySet.name),
                   AvailableFields(metadata, entitySet)),
       JsonRpcTool(systemId \o <<"_","g","e","t","_">> \o ToLowerCase(entitySet.name) \o <<"_","s","c","h","e","m","a">>,
                   <<>>) >>

\* generateJsonRpcTools once the metadata has arrived: the tools are
\* collected in a local array and returned with the system id
generateJsonRpcTools(systemId, metadata) ==
    [ systemId |-> systemId,
      tools |->
        << JsonRpcTool(systemId \o <<"_","g","e","t","_","m","e","t","a","d","a","t","a">>, <<>>),
           JsonRpcTool(systemId \o <<"_","l","i","s","t","_","e","n","t","i","t","i","e","s">>, <<>>),
           JsonRpcTool(systemId \o <<"_","l","i","s","t","_","e","n","t","i","t","y","_","s","e","t","s">>, <<>>) >>
        \o Flatten(MapSeq(LAMBDA es : EntitySetJsonRpcTools(systemId, metadata, es),
                          metadata.entitySets))
        \o (IF Len(metadata.functions) > 0
            THEN << JsonRpcTool(systemId \o <<"_","l","i","s","t","_","f","u","n","c","t","i","o","n","s">>, <<>>) >>
            ELSE <<>>) ]

MapHas(map, key) == \E i \in 1..Len(map) : map[i].systemId = key

MapGet(map, key) == map[CHOOSE i \in 1..Len(map) : map[i].systemId = key]

\* Map.prototype.set that adds the tools to those already registered
MapSetAppending(map, mapping) ==
    IF MapHas(map, mapping.systemId)
    THEN [ i \in 1..Len(map) |->
             IF map[i].systemId = mapping.systemId
             THEN [map[i] EXCEPT !.tools = map[i].tools \o mapping.tools]
             ELSE map[i] ]
    ELSE Append(map, mapping)

\* Map.prototype.set: the value under an existing key is replaced where it
\* stands, a new key goes to the end
MapSet(map, mapping) ==
    IF MapHas(map, mapping.systemId)
    THEN [ i \in 1..Len(map) |->
             IF map[i].systemId = mapping.systemId THEN mapping ELSE map[i] ]
    ELSE Append(map, mapping)

\* a forEach that stops after the first mapping
MapSetOnlyFirst(map, mappings) ==
    IF mappings = <<>> THEN map ELSE MapSet(map, Head(mappings))

\* mappings.forEach((mapping, systemId) => this.toolMappings.set(systemId, mapping))
RECURSIVE MapSetAll(_, _)
MapSetAll(map, mappings) ==
    IF mappings = <<>> THEN map
    ELSE MapSetAll(MapSet(map, Head(mappings)), Tail(mappings))

StaticTools ==
    << JsonRpcTool(<<"l","i","s","t","_","o","d","a","t","a","_","s","y","s","t","e","m","s">>, <<>>),
       JsonRpcTool(<<"g","e","t","_","s","y","s","t","e","m","_","c","o","n","n","e","c","t","i","o","n","_","i","n","f","o">>, <<>>) >>

getAllTools(map) ==
    Flatten(MapSeq(LAMBDA mapping : mapping.tools, map)) \o StaticTools

getToolsForSystem(map, systemId) ==
    IF MapHas(map, systemId) THEN MapGet(map, systemId).tools ELSE <<>>

-----------------------------------------------------------------------------
(* The systems behind the bridge and what they serve                       *)

MaxRefreshes == 2

SystemA == <<"s","1">>
SystemB == <<"s","2">>
\* multiODataClient.getAllSystems()
AllSystems == <<SystemA, SystemB>>
SystemIds  == {SystemA, SystemB}

ODataMetadata(entities, entitySets, functions) ==
    [entities |-> entities, entitySets |-> entitySets, functions |-> functions]

\* one entity set over a known entity type, no function
SmallMetadata ==
    ODataMetadata(<< [name |-> "Order", properties |-> <<"Id">>] >>,
                  << [name |-> <<"O","r","d","e","r","s">>, entityType |-> <<"NS", "Order">>] >>,
                  <<>>)

\* a second entity set whose entity type is not declared, and a function
LargeMetadata ==
    ODataMetadata(<< [name |-> "Order", properties |-> <<"Id", "Total">>] >>,
                  << [name |-> <<"O","r","d","e","r","s">>, entityType |-> <<"NS", "Order">>],
                     [name |-> <<"I","t","e","m","s">>,  entityType |-> <<"NS", "Item">>] >>,
                  << [name |-> "Ship"] >>)

MetadataDocuments == {SmallMetadata, LargeMetadata}

-----------------------------------------------------------------------------
(* Scenario: one call of extractServiceId                                  *)

IdIdle   == idIn = <<>> /\ idOut = <<>>
NameIdle == nameIn = <<>> /\ nameOut = <<>>
GenIdle  == genIn = <<>> /\ genOut = <<>>
ParseIdle == parseIn = <<>> /\ parseOut = <<>>
CallIdle  == callIn = <<>> /\ callOut = <<>>
BridgeIdle ==
    /\ backend = <<>> /\ toolMappings = <<>> /\ refreshes = <<>>
    /\ initializing = <<>> /\ lastRead = <<>>
ClientIdle ==
    /\ axiosInstances = <<>> /\ connectionStates = <<>> /\ csrfTokens = <<>>
    /\ tokenCache = <<>> /\ calls = <<>> /\ now = <<>> /\ delivered = <<>>

idVars   == <<idIn, idOut>>
nameVars == <<nameIn, nameOut>>
genVars  == <<genIn, genOut>>
parseVars  == <<parseIn, parseOut>>
bridgeVars == <<backend, toolMappings, refreshes, initializing, lastRead>>
callVars   == <<callIn, callOut>>
clientVars ==
    <<axiosInstances, connectionStates, csrfTokens, tokenCache, calls, now, delivered>>
vars     == <<pc, idVars, nameVars, genVars, parseVars, bridgeVars, callVars, clientVars>>

IdInit ==
    /\ pc = "start"
    /\ idIn \in ServiceUrls
    /\ idOut = <<>>
    /\ NameIdle /\ GenIdle /\ ParseIdle /\ BridgeIdle /\ CallIdle /\ ClientIdle

DeriveId ==
    /\ pc = "start"
    /\ pc' = "done"
    /\ idOut' = extractServiceId(idIn)
    /\ UNCHANGED <<idIn, nameVars, genVars, parseVars, bridgeVars, callVars, clientVars>>

SpecId == IdInit /\ [][DeriveId]_vars

-----------------------------------------------------------------------------
(* Scenario: one call of buildToolName                                     *)

NameInit ==
    /\ pc = "start"
    /\ nameIn \in NameInputs
    /\ nameOut = <<>>
    /\ IdIdle /\ GenIdle /\ ParseIdle /\ BridgeIdle /\ CallIdle /\ ClientIdle

BuildName ==
    /\ pc = "start"
    /\ pc' = "done"
    /\ nameOut' = buildToolName(nameIn.operation, nameIn.entityOrFunction,
                                nameIn.serviceId, nameIn.config)
    /\ UNCHANGED <<nameIn, idVars, genVars, parseVars, bridgeVars, callVars, clientVars>>

SpecName == NameInit /\ [][BuildName]_vars

-----------------------------------------------------------------------------
(* Scenario: one call of generateToolsForService                           *)

GenInit ==
    /\ pc = "start"
    /\ genIn \in GenInputs
    /\ genOut = <<>>
    /\ IdIdle /\ NameIdle /\ ParseIdle /\ BridgeIdle /\ CallIdle /\ ClientIdle

GenerateTools ==
    /\ pc = "start"
    /\ pc' = "done"
    /\ genOut' = generateToolsForService(genIn.service, genIn.config)
    /\ UNCHANGED <<genIn, idVars, nameVars, parseVars, bridgeVars, callVars, clientVars>>

SpecGen == GenInit /\ [][GenerateTools]_vars

-----------------------------------------------------------------------------
(* Scenario: one call of parseMetadata                                     *)

ParseInit ==
    /\ pc = "start"
    /\ parseIn \in Documents
    /\ parseOut = <<>>
    /\ IdIdle /\ NameIdle /\ GenIdle /\ BridgeIdle /\ CallIdle /\ ClientIdle

ParseMetadata ==
    /\ pc = "start"
    /\ pc' = "done"
    /\ parseOut' = parseMetadata(parseIn)
    /\ UNCHANGED <<parseIn, idVars, nameVars, genVars, bridgeVars, callVars, clientVars>>

SpecParse == ParseInit /\ [][ParseMetadata]_vars

-----------------------------------------------------------------------------
(* Scenario: the bridge, with refreshes, initialisation and reads          *)
(* interleaved at their awaits                                             *)

NoMapping == [systemId |-> <<>>, tools |-> <<>>]

\* a refreshSystemTools call waiting for its metadata, and one whose
\* mapping has been generated
Fetching(systemId) == [pc |-> "fetching", systemId |-> systemId, mapping |-> NoMapping]
Generated(mapping) == [pc |-> "generated", systemId |-> mapping.systemId, mapping |-> mapping]

Single(call) == SetToBag({call})

\* every call there can be
RefreshCalls ==
    { Fetching(s) : s \in SystemIds }
    \cup { Generated(generateJsonRpcTools(s, m)) : s \in SystemIds, m \in MetadataDocuments }

IdleInitialize == [pc |-> "idle", next |-> 0, mappings |-> <<>>]
NoRead == [kind |-> "none", systemId |-> <<>>, tools |-> <<>>]

pureVars == <<pc, idVars, nameVars, genVars, parseVars, callVars, clientVars>>

BridgeInit ==
    /\ pc = "bridge"
    /\ backend \in [SystemIds -> MetadataDocuments]
    /\ toolMappings = <<>>
    /\ refreshes = EmptyBag
    /\ initializing = IdleInitialize
    /\ lastRead = NoRead
    /\ IdIdle /\ NameIdle /\ GenIdle /\ ParseIdle /\ CallIdle /\ ClientIdle

\* a system starts to serve other metadata
BackendChanges(systemId, metadata) ==
    /\ backend[systemId] # metadata
    /\ backend' = [backend EXCEPT ![systemId] = metadata]
    /\ lastRead' = NoRead
    /\ UNCHANGED <<pureVars, toolMappings, refreshes, initializing>>

\* refreshSystemTools up to the await inside generateJsonRpcTools
StartRefresh(systemId) ==
    /\ BagCardinality(refreshes) < MaxRefreshes
    /\ refreshes' = refreshes (+) Single(Fetching(systemId))
    /\ lastRead' = NoRead
    /\ UNCHANGED <<pureVars, backend, toolMappings, initializing>>

\* getServiceMetadata resolves and generateJsonRpcTools builds its mapping
MetadataArrives(call) ==
    /\ BagIn(call, refreshes) /\ call.pc = "fetching"
    /\ refreshes' = (refreshes (-) Single(call))
                     (+) Single(Generated(generateJsonRpcTools(call.systemId,
                                                               backend[call.systemId])))
    /\ lastRead' = NoRead
    /\ UNCHANGED <<pureVars, backend, toolMappings, initializing>>

\* getServiceMetadata rejects; refreshSystemTools logs and rethrows
RefreshFails(call) ==
    /\ BagIn(call, refreshes) /\ call.pc = "fetching"
    /\ refreshes' = refreshes (-) Single(call)
    /\ lastRead' = NoRead
    /\ UNCHANGED <<pureVars, backend, toolMappings, initializing>>

\* refreshSystemTools after its await: this.toolMappings.set(systemId, mapping)
RegisterRefreshed(call) ==
    /\ BagIn(call, refreshes) /\ call.pc = "generated"
    /\ toolMappings' = MapSet(toolMappings, call.mapping)
    /\ refreshes' = refreshes (-) Single(call)
    /\ lastRead' = NoRead
    /\ UNCHANGED <<pureVars, backend, initializing>>

\* initializeTools up to the first await of discoverAllSystemsMetadata
StartInitialize ==
    /\ initializing.pc = "idle"
    /\ initializing' = [pc |-> "discovering", next |-> 1, mappings |-> <<>>]
    /\ lastRead' = NoRead
    /\ UNCHANGED <<pureVars, backend, toolMappings, refreshes>>

AfterSystem(mappings) ==
    [ pc |-> IF initializing.next = Len(AllSystems) THEN "discovered" ELSE "discovering",
      next |-> initializing.next + 1,
      mappings |-> mappings ]

\* discoverAllSystemsMetadata: the mapping of the next system arrives and
\* goes into the local Map
DiscoveryArrives ==
    /\ initializing.pc = "discovering"
    /\ initializing' =
           AfterSystem(MapSet(initializing.mappings,
                              generateJsonRpcTools(AllSystems[initializing.next],
                                                   backend[AllSystems[initializing.next]])))
    /\ lastRead' = NoRead
    /\ UNCHANGED <<pureVars, backend, toolMappings, refreshes>>

\* discoverAllSystemsMetadata: the next system fails and is passed over
DiscoveryFails ==
    /\ initializing.pc = "discovering"
    /\ initializing' = AfterSystem(initializing.mappings)
    /\ lastRead' = NoRead
    /\ UNCHANGED <<pureVars, backend, toolMappings, refreshes>>

\* initializeTools after its await: every discovered mapping is set
RegisterDiscovered ==
    /\ initializing.pc = "discovered"
    /\ toolMappings' = MapSetAll(toolMappings, initializing.mappings)
    /\ initializing' = IdleInitialize
    /\ lastRead' = NoRead
    /\ UNCHANGED <<pureVars, backend, refreshes>>

ReadToolsForSystem(systemId) ==
    /\ lastRead' = [ kind |-> "system", systemId |-> systemId,
                     tools |-> getToolsForSystem(toolMappings, systemId) ]
    /\ UNCHANGED <<pureVars, backend, toolMappings, refreshes, initializing>>

ReadAllTools ==
    /\ lastRead' = [ kind |-> "all", systemId |-> <<>>,
                     tools |-> getAllTools(toolMappings) ]
    /\ UNCHANGED <<pureVars, backend, toolMappings, refreshes, initializing>>

BridgeNext ==
    \/ \E s \in SystemIds, m \in MetadataDocuments : BackendChanges(s, m)
    \/ \E s \in SystemIds : StartRefresh(s)
    \/ \E call \in RefreshCalls : MetadataArrives(call)
    \/ \E call \in RefreshCalls : RefreshFails(call)
    \/ \E call \in RefreshCalls : RegisterRefreshed(call)
    \/ StartInitialize
    \/ DiscoveryArrives
    \/ DiscoveryFails
    \/ RegisterDiscovered
    \/ \E s \in SystemIds : ReadToolsForSystem(s)
    \/ ReadAllTools

SpecBridge == BridgeInit /\ [][BridgeNext]_vars

-----------------------------------------------------------------------------
(* Properties of tool generation                                           *)

GenMetadata == genIn.service.metadata
GenSets     == GenMetadata.entitySets
GenDone     == pc = "done" /\ genIn.service.hasMetadata
GenExpanded == expandOperations(genIn.config.enabledOperations)

ToolIndexes == 1..Len(genOut)

\* the entity behind the entity set a tool names
EntityOfTool(t) ==
    ResolvedEntity(GenMetadata,
        GenSets[MinOf({j \in 1..Len(GenSets) :
            GenSets[j].name = t.entitySet /\ Resolves(GenMetadata, GenSets[j])})])

Range(seq) == {seq[i] : i \in 1..Len(seq)}

\* C1: every Get, Update and Delete tool requires exactly the key
\* properties of its entity, in the order of the entity's keyProperties
\* list, whatever the keyProperties and properties lists contain.
C1_RequiredIsKeyList ==
    GenDone =>
        \A i \in ToolIndexes :
            genOut[i].operation \in {"get", "update", "delete"}
                => genOut[i].required = EntityOfTool(genOut[i]).keyProperties

\* C2: when 'C' is enabled, the Create tools of an entity-set name are as
\* many as the creatable entity sets of that name that resolve; an entity
\* set whose creatable flag is false contributes none, whatever other
\* letters are enabled.
C2_NoCreateToolUnlessCreatable ==
    GenDone =>
        \A n \in {GenSets[j].name : j \in 1..Len(GenSets)} :
            Cardinality({i \in ToolIndexes :
                genOut[i].operation = "create" /\ genOut[i].entitySet = n})
            = IF Includes(genIn.config.enabledOperations, "C")
              THEN Cardinality({j \in 1..Len(GenSets) :
                      /\ GenSets[j].name = n
                      /\ GenSets[j].creatable
                      /\ Resolves(GenMetadata, GenSets[j])})
              ELSE 0

\* a run with 'C' and 'R' enabled over an entity set that is not creatable,
\* which produced tools for it
C2_Witness ==
    /\ GenDone
    /\ Includes(genIn.config.enabledOperations, "C")
    /\ Includes(genIn.config.enabledOperations, "R")
    /\ Len(GenSets) = 1 /\ ~GenSets[1].creatable
    /\ Len(genOut) >= 3

SanitizedTarget(name) == SanitizeName(Underscore \o name \o Underscore)

PairwiseDistinctTargets(named) ==
    \A i, j \in 1..Len(named) :
        i < j => SanitizedTarget(named[i].name) # SanitizedTarget(named[j].name)

ResolvedSets == SelectSeq(GenSets, LAMBDA es : Resolves(GenMetadata, es))

\* the operation word a tool's name was built from
WordOfTool(t) ==
    CASE t.operation = "filter"   -> OpFilter
      [] t.operation = "search"   -> OpSearch
      [] t.operation = "get"      -> OpGet
      [] t.operation = "count"    -> OpCount
      [] t.operation = "create"   -> OpCreate
      [] t.operation = "update"   -> OpUpdate
      [] t.operation = "delete"   -> OpDelete
      [] t.operation = "function" -> OpFunc
      [] t.operation = "action"   -> OpAction

TargetOfTool(t) == IF t.entitySet # NoName THEN t.entitySet ELSE t.functionName

\* no tool's name was cut at maxToolNameLength
NothingTruncated ==
    \A i \in ToolIndexes :
        Len(RawToolName(WordOfTool(genOut[i]), TargetOfTool(genOut[i]),
                        extractServiceId(genIn.service.url), genIn.config))
            <= genIn.config.maxToolNameLength

UnresolvedIndexes == {j \in 1..Len(GenSets) : ~Resolves(GenMetadata, GenSets[j])}

WithoutUnresolved(service) ==
    [service EXCEPT !.metadata.entitySets =
        SelectSeq(@, LAMBDA es : Resolves(service.metadata, es))]

NonKey(properties)      == SelectSeq(properties, LAMBDA p : ~p.isKey)
NotNullable(properties) == SelectSeq(properties, LAMBDA p : ~p.nullable)

-----------------------------------------------------------------------------
(* Properties of buildToolName                                             *)

NameRaw ==
    RawToolName(nameIn.operation, nameIn.entityOrFunction, nameIn.serviceId,
                nameIn.config)

\* C4: every name buildToolName returns is a non-empty string over
\* [A-Za-z0-9_] no longer than maxToolNameLength (>= 1), and sanitising
\* does not make the truncated name longer.
C4_NameCleanAndShort ==
    pc = "done" =>
        /\ Len(nameOut) >= 1
        /\ \A i \in 1..Len(nameOut) : nameOut[i] \in WordChar
        /\ Len(nameOut) <= nameIn.config.maxToolNameLength
        /\ Len(nameOut) <= Len(TruncateName(NameRaw, nameIn.config.maxToolNameLength))

\* a name that was cut, and in which sanitising replaced a character
C4_Witness ==
    /\ pc = "done"
    /\ Len(NameRaw) > nameIn.config.maxToolNameLength
    /\ \E i \in 1..Len(nameOut) : nameOut[i] # NameRaw[i]
    /\ Len(nameOut) = nameIn.config.maxToolNameLength

-----------------------------------------------------------------------------
(* Properties of extractServiceId                                          *)

\* C5: the service id has at most 8 characters, all of them in
\* [A-Za-z0-9_], whichever rule produced it (the call itself always
\* returns: the one throwing step, the URL constructor, is caught).
C5_IdShortAndClean ==
    pc = "done" =>
        /\ Len(idOut) <= 8
        /\ \A i \in 1..Len(idOut) : idOut[i] \in WordChar

\* C6 as claimed: the SAP example yields "Z0", the .svc example "NorthSvc"
C6_ExamplesAsClaimed ==
    pc = "done" =>
        /\ idIn = SapExampleUrl => idOut = <<"Z","0">>
        /\ idIn = NorthwindExampleUrl => idOut = <<"N","o","r","t","h","S","v","c">>

\* C6, amended: "https://x/sap/opu/odata/sap/ZODD_000_SRV" yields "Z000"
\* (the first letter and the whole digit group), and
\* "https://x/V4/Northwind/Northwind.svc" yields "NorthSvc".
C6_ExamplesAsComputed ==
    pc = "done" =>
        /\ idIn = SapExampleUrl => idOut = <<"Z","0","0","0">>
        /\ idIn = NorthwindExampleUrl => idOut = <<"N","o","r","t","h","S","v","c">>

\* the SAP example has been derived, by rule 1
C6_Witness ==
    pc = "done" /\ idIn = SapExampleUrl /\ RuleOf(idIn) = 1 /\ Len(idOut) = 4

-----------------------------------------------------------------------------
(* Properties of parseMetadata                                             *)

\* C7: parseMetadata throws, and returns no ServiceMetadata, whenever its
\* input is not well-formed XML or holds no Schema element at all.
C7_FailsWithoutSchema ==
    pc = "done" =>
        ((~parseIn.wellFormed \/ parseIn.schemas = <<>>) => parseOut.threw)

-----------------------------------------------------------------------------
(* Properties of the bridge                                                *)

\* the whole tool list of one metadata document of the system
CompleteFor(systemId, tools) ==
    \E m \in MetadataDocuments : tools = generateJsonRpcTools(systemId, m).tools

RegisteredWhole ==
    /\ \A i \in 1..Len(toolMappings) :
          CompleteFor(toolMappings[i].systemId, toolMappings[i].tools)
    /\ \A i, j \in 1..Len(toolMappings) :
          i # j => toolMappings[i].systemId # toolMappings[j].systemId

ReadIsWhole ==
    /\ lastRead.kind = "system" =>
          IF MapHas(toolMappings, lastRead.systemId)
          THEN /\ CompleteFor(lastRead.systemId, lastRead.tools)
               /\ lastRead.tools = MapGet(toolMappings, lastRead.systemId).tools
          ELSE lastRead.tools = <<>>
    /\ lastRead.kind = "all" =>
          \E served \in [1..Len(toolMappings) -> MetadataDocuments] :
              lastRead.tools =
                  Flatten([ i \in 1..Len(toolMappings) |->
                              generateJsonRpcTools(toolMappings[i].systemId,
                                                   served[i]).tools ])
                  \o StaticTools

\* a step in which a refresh, or the discovery of one system, fails
FailureStep ==
    \/ \E call \in BagToSet(refreshes) :
          call.pc = "fetching" /\ refreshes' = refreshes (-) Single(call)
    \/ /\ initializing.pc = "discovering"
       /\ initializing'.next = initializing.next + 1
       /\ initializing'.mappings = initializing.mappings

\* C10: in every interleaving of refreshSystemTools and initializeTools
\* with getToolsForSystem and getAllTools, every registered list and every
\* list a reader obtains for a system is the complete list of one single
\* metadata fetch of that system, never a part or a mixture, and a refresh
\* that fails leaves the registered lists as they were.
C10_ReadersSeeWholeLists ==
    /\ [](RegisteredWhole /\ ReadIsWhole)
    /\ [][FailureStep => toolMappings' = toolMappings]_vars

\* a reader has just been given the registered list of a system while a
\* refresh of that system holds a different, newly generated list that it
\* has not registered yet
C10_Witness ==
    /\ lastRead.kind = "system"
    /\ lastRead.tools # <<>>
    /\ \E call \in BagToSet(refreshes) :
          /\ call.pc = "generated"
          /\ call.systemId = lastRead.systemId
          /\ call.mapping.tools # lastRead.tools

\* a step of discoverAllSystemsMetadata over one system, and the step that
\* registers what was discovered
DiscoveryStep == initializing.pc = "discovering" /\ initializing' # initializing
RegistrationStep == initializing.pc = "discovered" /\ initializing' # initializing

\* C11: a system whose discovery fails does not abort initializeTools: the
\* run goes on to the next system with every mapping discovered so far, it
\* ends by registering (never by throwing), and every system whose
\* discovery succeeded in the run then has that mapping registered.
C11_FailedSystemIsPassedOver ==
    /\ [][DiscoveryStep =>
            /\ initializing'.next = initializing.next + 1
            /\ initializing'.pc =
                   (IF initializing.next = Len(AllSystems)
                    THEN "discovered" ELSE "discovering")
            /\ \A i \in 1..Len(initializing.mappings) :
                   /\ MapHas(initializing'.mappings, initializing.mappings[i].systemId)
                   /\ MapGet(initializing'.mappings, initializing.mappings[i].systemId)
                          = initializing.mappings[i]
            /\ \/ initializing'.mappings = initializing.mappings
               \/ /\ MapHas(initializing'.mappings, AllSystems[initializing.next])
                  /\ MapGet(initializing'.mappings, AllSystems[initializing.next])
                         = generateJsonRpcTools(AllSystems[initializing.next],
                                                backend[AllSystems[initializing.next]])
         ]_vars
    /\ [][RegistrationStep =>
            /\ initializing'.pc = "idle"
            /\ \A i \in 1..Len(initializing.mappings) :
                   /\ MapHas(toolMappings', initializing.mappings[i].systemId)
                   /\ MapGet(toolMappings', initializing.mappings[i].systemId)
                          = initializing.mappings[i]
         ]_vars

\* the first system failed, the second was discovered, and the run is about
\* to register the second one's mapping over an empty registry
C11_Witness ==
    /\ initializing.pc = "discovered"
    /\ Len(initializing.mappings) = 1
    /\ initializing.mappings[1].systemId = SystemB
    /\ ~MapHas(toolMappings, SystemB)

-----------------------------------------------------------------------------
(* The odata_service_info tool (system.resolver.ts, with                   *)
(* universal-system-client.service.ts)                                     *)
(*                                                                         *)
(* A JSON object is kept as the set of its member names (keys) with the    *)
(* members a reader of the answer looks at.                                *)

ConfiguredSystem == "s1"

\* systemConfigService.getSystem(systemId) finds a configuration
SystemConfigured(systemId) == systemId = ConfiguredSystem

HttpFailure == "http failure"
EmptyBody   == "empty body"
XmlBody     == "xml"

\* UniversalSystemClientService.getServiceMetadata: throws without an axios
\* instance, on a rejected request, on an empty body and when parseMetadata
\* throws; otherwise returns the service with the parsed metadata
getServiceMetadata(connected, response) ==
    IF ~connected THEN Threw("System not connected")
    ELSE IF response.kind = HttpFailure THEN Threw("Request failed")
    ELSE IF response.kind = EmptyBody THEN Threw("No metadata received")
    ELSE IF parseMetadata(response.document).threw
         THEN parseMetadata(response.document)
    ELSE Returned(parseMetadata(response.document).value)

NoCounts == [entities |-> 0, entitySets |-> 0, functions |-> 0, actions |-> 0]

\* the object built when getSystem finds nothing
NotFoundAnswer ==
    [ keys |-> {"success", "error"}, success |-> FALSE,
      error |-> "System not found", counts |-> NoCounts ]

\* the object built in the catch block; JSON.stringify leaves out serviceId
\* when the parameter is undefined
CaughtAnswer(params, message) ==
    [ keys |-> {"success", "error", "systemId", "message"}
               \cup (IF params.serviceId = "" THEN {} ELSE {"serviceId"}),
      success |-> FALSE, error |-> message, counts |-> NoCounts ]

\* the object built from the metadata
SuccessAnswer(params, metadata) ==
    [ keys |-> {"success", "systemId", "systemName", "serviceId", "metadata",
                "entities", "entitySets", "availableOperations", "jsonRpcTools"}
               \cup (IF params.includeMetadata THEN {"rawMetadata"} ELSE {}),
      success |-> TRUE, error |-> "",
      counts |-> [ entities   |-> Len(metadata.entities),
                   entitySets |-> Len(metadata.entitySets),
                   functions  |-> Len(metadata.functions),
                   actions    |-> Len(metadata.actions) ] ]

\* odataServiceInfo: everything runs inside one try, and each path returns
\* one content item
odataServiceInfo(params, connected, response) ==
    IF ~SystemConfigured(params.systemId) THEN Returned(NotFoundAnswer)
    ELSE IF getServiceMetadata(connected, response).threw
         THEN Returned(CaughtAnswer(params, getServiceMetadata(connected, response).error))
    ELSE Returned(SuccessAnswer(params, getServiceMetadata(connected, response).value))

\* the documents an answer is made of: one Schema element at most, no
\* namespace, no Version attribute
InfoDocuments ==
    { d \in Documents : Len(d.schemas) <= 1 /\ d.namespaceURI = NoNamespace
                        /\ d.Version = <<>> }

InfoResponses ==
    { [kind |-> k, document |-> <<>>] : k \in {HttpFailure, EmptyBody} }
    \cup { [kind |-> XmlBody, document |-> d] : d \in InfoDocuments }

InfoInputs ==
    [ params    : [ systemId : {ConfiguredSystem, "s9"}, serviceId : {"", "svc"},
                    includeMetadata : BOOLEAN ],
      connected : BOOLEAN,
      response  : InfoResponses ]

InfoInit ==
    /\ pc = "start"
    /\ callIn \in InfoInputs
    /\ callOut = <<>>
    /\ IdIdle /\ NameIdle /\ GenIdle /\ ParseIdle /\ BridgeIdle /\ ClientIdle

ServiceInfo ==
    /\ pc = "start"
    /\ pc' = "done"
    /\ callOut' = odataServiceInfo(callIn.params, callIn.connected, callIn.response)
    /\ UNCHANGED <<callIn, idVars, nameVars, genVars, parseVars, bridgeVars, clientVars>>

SpecInfo == InfoInit /\ [][ServiceInfo]_vars

\* the call is one the claim calls failed: unknown system, system not
\* connected, fetch error, or a body that is not well-formed XML with a
\* Schema element
InfoFailed ==
    \/ ~SystemConfigured(callIn.params.systemId)
    \/ ~callIn.connected
    \/ callIn.response.kind # XmlBody
    \/ ~callIn.response.document.wellFormed
    \/ callIn.response.document.schemas = <<>>

\* C12: a failed odata_service_info call returns (never throws) one error
\* object with an error kind, a message and the identifier of the failing
\* system or service, and never a success result.
C12_FailureIsOneStructuredError ==
    (pc = "done" /\ InfoFailed) =>
        /\ ~callOut.threw
        /\ ~callOut.value.success
        /\ {"kind", "message"} \subseteq callOut.value.keys
        /\ callOut.value.keys \cap {"systemId", "serviceId"} # {}

-----------------------------------------------------------------------------
(* Query building (universal-system-client.service.ts: executeQuery)       *)
(*                                                                         *)
(* An option of ODataQueryOptions is a record: present says whether the    *)
(* member is there, value holds it.  The query is the list of entries      *)
(* appended to the URLSearchParams, each a name and a text.                *)

Opt(present, value) == [present |-> present, value |-> value]

DigitChars == <<"0","1","2","3","4","5","6","7","8","9">>

\* Number.prototype.toString for a natural number
RECURSIVE NumberToString(_)
NumberToString(n) ==
    IF n < 10 THEN <<DigitChars[n + 1]>>
    ELSE NumberToString(n \div 10) \o <<DigitChars[(n % 10) + 1]>>

\* Array.prototype.join(',')
RECURSIVE JoinCommas(_)
JoinCommas(items) ==
    IF items = <<>> THEN <<>>
    ELSE IF Len(items) = 1 THEN items[1]
    ELSE items[1] \o <<",">> \o JoinCommas(Tail(items))

Entry(name, text) == [name |-> name, text |-> text]

\* if (options.x) ... : an absent member, an empty string, 0 and false are
\* all falsy; select?.length and expand?.length are falsy for an empty array
TruthyText(option)   == option.present /\ option.value # <<>>
TruthyNumber(option) == option.present /\ option.value # 0
TruthyFlag(option)   == option.present /\ option.value

\* the appends of executeQuery, in their order
QueryEntries(options) ==
    (IF TruthyText(options.select)
     THEN <<Entry("$select", JoinCommas(options.select.value))>> ELSE <<>>)
    \o (IF TruthyText(options.filter)
        THEN <<Entry("$filter", options.filter.value)>> ELSE <<>>)
    \o (IF TruthyText(options.orderby)
        THEN <<Entry("$orderby", options.orderby.value)>> ELSE <<>>)
    \o (IF TruthyNumber(options.top)
        THEN <<Entry("$top", NumberToString(options.top.value))>> ELSE <<>>)
    \o (IF TruthyNumber(options.skip)
        THEN <<Entry("$skip", NumberToString(options.skip.value))>> ELSE <<>>)
    \o (IF TruthyText(options.expand)
        THEN <<Entry("$expand", JoinCommas(options.expand.value))>> ELSE <<>>)
    \o (IF TruthyFlag(options.count)
        THEN <<Entry("$count", <<"t","r","u","e">>)>> ELSE <<>>)
    \o (IF TruthyText(options.search)
        THEN <<Entry("$search", options.search.value)>> ELSE <<>>)
    \o (IF TruthyText(options.format)
        THEN <<Entry("$format", options.format.value)>> ELSE <<>>)

MaxTop  == 1
MaxSkip == 1

AbsentText   == Opt(FALSE, <<>>)
AbsentNumber == Opt(FALSE, 0)
AbsentFlag   == Opt(FALSE, FALSE)

QueryOptions ==
    [ select  : {AbsentText, Opt(TRUE, <<>>), Opt(TRUE, <<<<"a">>>>), Opt(TRUE, <<<<"a">>, <<"b">>>>)},
      filter  : {AbsentText, Opt(TRUE, <<>>), Opt(TRUE, <<"x">>)},
      orderby : {AbsentText, Opt(TRUE, <<"o">>)},
      \* a page size of two digits besides the small ones
      top     : {AbsentNumber} \cup {Opt(TRUE, n) : n \in 0..MaxTop \cup {25}},
      skip    : {AbsentNumber} \cup {Opt(TRUE, n) : n \in 0..MaxSkip},
      expand  : {AbsentText, Opt(TRUE, <<<<"n">>>>)},
      count   : {AbsentFlag, Opt(TRUE, TRUE), Opt(TRUE, FALSE)},
      search  : {AbsentText, Opt(TRUE, <<"s">>)},
      format  : {AbsentText, Opt(TRUE, <<"j","s","o","n">>)} ]

QueryInit ==
    /\ pc = "start"
    /\ callIn \in QueryOptions
    /\ callOut = <<>>
    /\ IdIdle /\ NameIdle /\ GenIdle /\ ParseIdle /\ BridgeIdle /\ ClientIdle

BuildQuery ==
    /\ pc = "start"
    /\ pc' = "done"
    /\ callOut' = QueryEntries(callIn)
    /\ UNCHANGED <<callIn, idVars, nameVars, genVars, parseVars, bridgeVars, clientVars>>

SpecQuery == QueryInit /\ [][BuildQuery]_vars

\* one entry for each option that is present, in the fixed order
EntriesOfPresent(options) ==
    (IF options.select.present
     THEN <<Entry("$select", JoinCommas(options.select.value))>> ELSE <<>>)
    \o (IF options.filter.present
        THEN <<Entry("$filter", options.filter.value)>> ELSE <<>>)
    \o (IF options.orderby.present
        THEN <<Entry("$orderby", options.orderby.value)>> ELSE <<>>)
    \o (IF options.top.present
        THEN <<Entry("$top", NumberToString(options.top.value))>> ELSE <<>>)
    \o (IF options.skip.present
        THEN <<Entry("$skip", NumberToString(options.skip.value))>> ELSE <<>>)
    \o (IF options.expand.present
        THEN <<Entry("$expand", JoinCommas(options.expand.value))>> ELSE <<>>)
    \o (IF options.count.present
        THEN <<Entry("$count", IF options.count.value THEN <<"t","r","u","e">> ELSE <<"f","a","l","s","e">>)>>
        ELSE <<>>)
    \o (IF options.search.present
        THEN <<Entry("$search", options.search.value)>> ELSE <<>>)
    \o (IF options.format.present
        THEN <<Entry("$format", options.format.value)>> ELSE <<>>)

\* C13: the query holds one parameter for each option that is present and
\* none for an absent one, in the order $select, $filter, $orderby, $top,
\* $skip, $expand, $count, $search, $format, arrays comma-joined and a
\* present count written true or false, for every options value with
\* top >= 0, skip >= 0 and count in {true, false}.
C13_OneParameterPerPresentOption ==
    pc = "done" => callOut = EntriesOfPresent(callIn)

-----------------------------------------------------------------------------
(* Response normalisation (universal-system-client.service.ts:             *)
(* executeQuery, after the response has arrived)                           *)
(*                                                                         *)
(* A payload is the record of the members the code looks at, each one an   *)
(* Opt.  The data of a result names where it was taken from, with the      *)
(* value taken as body.                                                    *)

\* parseInt(text): the number its leading digits spell (texts here start
\* with a digit)
RECURSIVE DigitsValue(_, _)
DigitsValue(text, acc) ==
    IF text = <<>> \/ text[1] \notin Digit THEN acc
    ELSE DigitsValue(Tail(text),
                     acc * 10 + ((CHOOSE k \in 1..10 : DigitChars[k] = text[1]) - 1))

ParseInt(text) == DigitsValue(text, 0)

Data(source, body) == [source |-> source, body |-> body]

\* response.data.d with no result list: the whole of d is the data
V2DataWhole(d) == Data("d", d)

\* response.data.d.results || response.data.d
V2Data(d) ==
    IF d.results.present THEN Data("list", d.results.value) ELSE Data("d", d)

QueryResult(data, count, nextLink) ==
    [data |-> data, count |-> count, nextLink |-> nextLink]

\* if (x.__next) result.nextLink = x.__next: an empty link sets nothing
LinkOf(next) == IF next.present /\ next.value # <<>> THEN next ELSE AbsentText

\* the extraction at the end of executeQuery
normalizeResponse(payload) ==
    IF payload.d.present
    THEN QueryResult(V2Data(payload.d.value),
                     IF payload.d.value.count.present
                     THEN Opt(TRUE, ParseInt(payload.d.value.count.value))
                     ELSE AbsentNumber,
                     LinkOf(payload.d.value.next))
    ELSE IF payload.value.present
    THEN QueryResult(Data("list", payload.value.value),
                     IF payload.odataCount.present
                     THEN Opt(TRUE, payload.odataCount.value)
                     ELSE AbsentNumber,
                     LinkOf(payload.odataNext))
    ELSE QueryResult(Data("payload", payload), AbsentNumber, AbsentText)

MaxRecords == 2
MaxCount   == 10

RecordLists == SeqsUpTo({"r1", "r2"}, MaxRecords)
Counts      == 0..MaxCount
NextLinks   == {AbsentText, Opt(TRUE, <<>>), Opt(TRUE, <<"u">>)}

DObject(results, count, next) == [results |-> results, count |-> count, next |-> next]

NoD == DObject(AbsentText, AbsentText, AbsentText)

Payload(d, value, odataCount, odataNext) ==
    [d |-> d, value |-> value, odataCount |-> odataCount, odataNext |-> odataNext]

\* {d: {results: L, __count: "n", __next: link}}
V2Envelope(L, n, next) ==
    Payload(Opt(TRUE, DObject(Opt(TRUE, L), Opt(TRUE, NumberToString(n)), next)),
            AbsentText, AbsentNumber, AbsentText)

\* {value: L, "<<"o","d","a","t","a",".","c","o","u","n","t",""",":"," ","n",","," ",""">>odata.nextLink": link}
V4Envelope(L, n, next) ==
    Payload(Opt(FALSE, NoD), Opt(TRUE, L), Opt(TRUE, n), next)

Payloads ==
    { V2Envelope(L, n, x) : L \in RecordLists, n \in Counts, x \in NextLinks }
    \cup { V4Envelope(L, n, x) : L \in RecordLists, n \in Counts, x \in NextLinks }
    \* d without a result list or a count; value without a count
    \cup { Payload(Opt(TRUE, DObject(AbsentText, AbsentText, x)),
                   AbsentText, AbsentNumber, AbsentText) : x \in NextLinks }
    \cup { Payload(Opt(FALSE, NoD), Opt(TRUE, L), AbsentNumber, AbsentText) :
               L \in RecordLists }
    \* neither d nor value
    \cup { Payload(Opt(FALSE, NoD), AbsentText, c, x) :
               c \in {AbsentNumber} \cup {Opt(TRUE, n) : n \in Counts}, x \in NextLinks }

NormalizeInit ==
    /\ pc = "start"
    /\ callIn \in Payloads
    /\ callOut = <<>>
    /\ IdIdle /\ NameIdle /\ GenIdle /\ ParseIdle /\ BridgeIdle /\ ClientIdle

Normalize ==
    /\ pc = "start"
    /\ pc' = "done"
    /\ callOut' = normalizeResponse(callIn)
    /\ UNCHANGED <<callIn, idVars, nameVars, genVars, parseVars, bridgeVars, clientVars>>

SpecNormalize == NormalizeInit /\ [][Normalize]_vars

\* C14: for every list L and count n the v2 envelope
\* {d: {results: L, __count: "n"}} and the v4 envelope
\* {value: L, "@odata.count": n} normalise to the same result, data = L
\* and count = n as a number, with the next link taken from d.__next resp.
\* @odata.nextLink (an empty link counting as none); and a payload with
\* neither d nor value comes back unchanged as data.
C14_EnvelopesNormaliseAlike ==
    pc = "done" =>
        /\ \A L \in RecordLists, n \in Counts, x \in NextLinks :
              (callIn = V2Envelope(L, n, x) \/ callIn = V4Envelope(L, n, x)) =>
                  /\ callOut.data.source = "list" /\ callOut.data.body = L
                  /\ callOut.count.present /\ callOut.count.value = n
                  /\ callOut.nextLink = LinkOf(x)
        /\ (~callIn.d.present /\ ~callIn.value.present) =>
              /\ callOut.data.source = "payload" /\ callOut.data.body = callIn
              /\ ~callOut.count.present /\ ~callOut.nextLink.present

\* a v2 envelope with an empty list, a two-digit count and a next link has
\* been normalised
C14_Witness ==
    /\ pc = "done"
    /\ callIn.d.present /\ callIn.d.value.results.present
    /\ callIn.d.value.results.value = <<>>
    /\ callIn.d.value.count.value = <<"1","0">>
    /\ callOut.count.value = 10
    /\ callOut.nextLink.present

-----------------------------------------------------------------------------
(* Further properties of parseMetadata                                     *)

ParsedEntities == IF parseOut.threw THEN <<>> ELSE parseOut.value.entities

\* C15: in every ServiceMetadata parseMetadata returns, each name in an
\* entity's keyProperties is the name of one of its properties, and a
\* property has isKey = true exactly when its name is in keyProperties.
C15_KeysAreProperties ==
    pc = "done" =>
        \A i \in 1..Len(ParsedEntities) :
            LET e == ParsedEntities[i]
            IN  /\ \A k \in 1..Len(e.keyProperties) :
                       \E j \in 1..Len(e.properties) :
                           e.properties[j].name = e.keyProperties[k]
                /\ \A j \in 1..Len(e.properties) :
                       e.properties[j].isKey
                           <=> Includes(e.keyProperties, e.properties[j].name)

-----------------------------------------------------------------------------
(* Scenario: tools generated, and generated again, possibly after the      *)
(* metadata of the service was refreshed                                   *)
(*                                                                         *)
(* genIn holds the service and config objects as they are now, callIn      *)
(* what they were at the start, callOut the first list, genOut the second. *)

\* what generateToolsForService leaves of the objects it was given: it
\* assigns to no member of them, and expandOperations splices a copy
ArgumentsAfterSplicing(args) ==
    [args EXCEPT !.config.enabledOperations = expandOperations(@)]

ArgumentsAfterGeneration(args) == args

\* key b and three properties
WiderEntity ==
    ParsedEntity("E", <<"b">>,
                 << [name |-> "b", nullable |-> FALSE],
                    [name |-> "c", nullable |-> FALSE],
                    [name |-> "d", nullable |-> TRUE] >>)

RegenSetLists ==
    { <<>>,
      << EntitySet(<<"S">>, "E", AllCapabilities) >>,
      << EntitySet(NameUnder, "E", AllCapabilities) >>,
      << EntitySet(<<"S">>, "E", AllCapabilities),
         EntitySet(NameUnder, "E", AllCapabilities) >>,
      << EntitySet(NameUnder, "E", [AllCapabilities EXCEPT !.deletable = FALSE]),
         EntitySet(<<"S">>, "E", AllCapabilities) >>,
      << EntitySet(<<"S">>, "X", AllCapabilities),
         EntitySet(NameProducts, "E", AllCapabilities) >> }

RegenMetadata ==
    { Metadata(<<e>>, sets, fs, fs) :
        e \in {PlainEntity, WiderEntity}, sets \in RegenSetLists, fs \in FunctionPool }

RegenInputs ==
    { [ service |-> Service(NorthwindExampleUrl, Metadata(<<PlainEntity>>, sets, fs, fs)),
        config  |-> GenConfig(<<"R","C","U","D","A">>, n, TRUE) ] :
      sets \in RegenSetLists, fs \in FunctionPool,
      n \in NamingConfigs({MaxNameLimit, 64}) }

RegenInit ==
    /\ pc = "start"
    /\ genIn \in RegenInputs
    /\ callIn = genIn
    /\ callOut = <<>>
    /\ genOut = <<>>
    /\ IdIdle /\ NameIdle /\ ParseIdle /\ BridgeIdle /\ ClientIdle

GenerateFirst ==
    /\ pc = "start"
    /\ pc' = "once"
    /\ callOut' = generateToolsForService(genIn.service, genIn.config)
    /\ genIn' = ArgumentsAfterGeneration(genIn)
    /\ UNCHANGED <<callIn, genOut, idVars, nameVars, parseVars, bridgeVars, clientVars>>

\* the service is given the metadata of a new fetch; url and config stay
RefreshMetadata(metadata) ==
    /\ pc = "once"
    /\ pc' = "refreshed"
    /\ genIn' = [genIn EXCEPT !.service.metadata = metadata]
    /\ UNCHANGED <<callIn, callOut, genOut, idVars, nameVars, parseVars, bridgeVars, clientVars>>

GenerateAgain ==
    /\ pc \in {"once", "refreshed"}
    /\ pc' = (IF pc = "once" THEN "twice" ELSE "regenerated")
    /\ genOut' = generateToolsForService(genIn.service, genIn.config)
    /\ genIn' = ArgumentsAfterGeneration(genIn)
    /\ UNCHANGED <<callIn, callOut, idVars, nameVars, parseVars, bridgeVars, clientVars>>

RegenNext ==
    \/ GenerateFirst
    \/ \E m \in RegenMetadata : RefreshMetadata(m)
    \/ GenerateAgain

SpecRegen == RegenInit /\ [][RegenNext]_vars

SameTarget(t, u) ==
    /\ t.operation = u.operation
    /\ t.entitySet = u.entitySet
    /\ t.functionName = u.functionName

\* C17: after a metadata refresh of the same service under the same
\* config, a target whose name is there before and after keeps the tool
\* name of each of its operations, whatever else changed in the metadata.
C17_NamesSurviveRefresh ==
    pc = "regenerated" =>
        \A i \in 1..Len(callOut), j \in 1..Len(genOut) :
            SameTarget(callOut[i], genOut[j]) => callOut[i].name = genOut[j].name

\* the refresh changed the number of entity sets and the entity, and a
\* target of the first list is in the second with another input schema
C17_Witness ==
    /\ pc = "regenerated"
    /\ Len(genIn.service.metadata.entitySets) # Len(callIn.service.metadata.entitySets)
    /\ genIn.service.metadata.entities # callIn.service.metadata.entities
    /\ \E i \in 1..Len(callOut), j \in 1..Len(genOut) :
          /\ SameTarget(callOut[i], genOut[j])
          /\ callOut[i].properties # genOut[j].properties

-----------------------------------------------------------------------------
(* The facets of a property and the JSON-Schema type made of them          *)
(* (metadata-parser.service.ts: parseProperty; tool-generator.service.ts:  *)
(* mapODataTypeToJsonSchema)                                               *)
(*                                                                         *)
(* Type names are whole strings, compared as the switch compares them.  A  *)
(* number is a record that says whether it is NaN; a power of ten is       *)
(* written by its exponent.  The description and default members of the    *)
(* schema, which no case of the switch reads, are left out.                *)

Num(n) == [nan |-> FALSE, n |-> n]

NaN == [nan |-> TRUE, n |-> 0]

AbsentFacet == Opt(FALSE, Num(0))

AbsentAttribute == Opt(FALSE, <<>>)

\* parseInt(text, 10) of an attribute text that starts with a digit or
\* with a letter
ParseIntFacet(text) ==
    IF text[1] \in Digit THEN Num(ParseInt(text)) ELSE NaN

\* if (attribute) of a getAttribute result: null and '' are falsy
TruthyAttribute(attribute) == attribute.present /\ attribute.value # <<>>

\* a facet that is set from every truthy attribute text
FacetOf(attribute) ==
    IF TruthyAttribute(attribute)
    THEN Opt(TRUE, ParseIntFacet(attribute.value))
    ELSE AbsentFacet

\* lines 218-243 of parseProperty with the facets kept: <<>> for null
parsePropertyFacets(el) ==
    IF el.Name = "" \/ el.Type = "" THEN <<>>
    ELSE << [ name      |-> el.Name,
              type      |-> el.Type,
              maxLength |-> IF TruthyAttribute(el.MaxLength) /\ el.MaxLength.value # <<"M","a","x">>
                            THEN Opt(TRUE, ParseIntFacet(el.MaxLength.value))
                            ELSE AbsentFacet,
              precision |-> FacetOf(el.Precision),
              scale     |-> FacetOf(el.Scale) ] >>

\* if (property?.facet): undefined, NaN and 0 are falsy
TruthyFacet(facet) == facet.present /\ ~facet.value.nan /\ facet.value.n # 0

\* -property.scale || 0: the negation of undefined is NaN, that of 0 is -0
NegatedOrZero(facet) == IF TruthyFacet(facet) THEN 0 - facet.value.n ELSE 0

\* a switch that has lost the case labels of the one-byte integers
JsonTypeWithoutBytes(odataType) ==
    CASE odataType \in {"Edm.Int16", "Edm.Int32", "Edm.Int64"} -> "integer"
      [] odataType \in {"Edm.Single", "Edm.Double", "Edm.Decimal"} -> "number"
      [] odataType = "Edm.Boolean" -> "boolean"
      [] OTHER -> "string"

\* the type member that the switch sets
JsonType(odataType) ==
    CASE odataType = "Edm.String" -> "string"
      [] odataType \in {"Edm.Int16", "Edm.Int32", "Edm.Int64", "Edm.Byte", "Edm.SByte"}
            -> "integer"
      [] odataType \in {"Edm.Single", "Edm.Double", "Edm.Decimal"} -> "number"
      [] odataType = "Edm.Boolean" -> "boolean"
      [] odataType \in {"Edm.DateTime", "Edm.DateTimeOffset", "Edm.Time", "Edm.Guid",
                        "Edm.Binary"} -> "string"
      [] OTHER -> "string"

mapODataTypeToJsonSchema(odataType, property) ==
    [ type       |-> JsonType(odataType),
      maxLength  |-> IF odataType = "Edm.String" /\ TruthyFacet(property.maxLength)
                     THEN Opt(TRUE, property.maxLength.value.n)
                     ELSE AbsentNumber,
      multipleOf |-> IF /\ odataType \in {"Edm.Single", "Edm.Double", "Edm.Decimal"}
                        /\ TruthyFacet(property.precision)
                     THEN Opt(TRUE, NegatedOrZero(property.scale))
                     ELSE AbsentNumber ]

(* Scenario: one <Property> element is parsed and its type mapped *)

TableTypes ==
    { "Edm.String", "Edm.Int16", "Edm.Int32", "Edm.Int64", "Edm.Byte", "Edm.SByte",
      "Edm.Single", "Edm.Double", "Edm.Decimal", "Edm.Boolean", "Edm.DateTime",
      "Edm.DateTimeOffset", "Edm.Time", "Edm.Guid", "Edm.Binary" }

\* type names outside the table, and no Type attribute
OtherTypes ==
    { "Edm.GeographyPoint", "edm.string", "Collection(Edm.Int32)", "NS.Address", "" }

MaxLengthTexts == { AbsentAttribute, Opt(TRUE, <<"M","a","x">>), Opt(TRUE, <<"0">>), Opt(TRUE, <<"1","0">>) }

PrecisionTexts == { AbsentAttribute, Opt(TRUE, <<>>), Opt(TRUE, <<"0">>), Opt(TRUE, <<"5">>) }

ScaleTexts ==
    { AbsentAttribute, Opt(TRUE, <<"0">>), Opt(TRUE, <<"2">>), Opt(TRUE, <<"v","a","r","i","a","b","l","e">>) }

FacetElements ==
    { [ Name |-> "p", Type |-> t, MaxLength |-> ml, Precision |-> p, Scale |-> s ] :
      t \in TableTypes \cup OtherTypes,
      ml \in MaxLengthTexts, p \in PrecisionTexts, s \in ScaleTexts }

TypeInit ==
    /\ pc = "element"
    /\ callIn \in FacetElements
    /\ callOut = <<>>
    /\ IdIdle /\ NameIdle /\ GenIdle /\ ParseIdle /\ BridgeIdle /\ ClientIdle

ParseProperty ==
    /\ pc = "element"
    /\ callOut' = parsePropertyFacets(callIn)
    /\ pc' = (IF callOut' = <<>> THEN "dropped" ELSE "parsed")
    /\ UNCHANGED <<callIn, idVars, nameVars, genVars, parseVars, bridgeVars, clientVars>>

MapType ==
    /\ pc = "parsed"
    /\ pc' = "mapped"
    /\ genOut' = mapODataTypeToJsonSchema(callOut[1].type, callOut[1])
    /\ UNCHANGED <<callIn, callOut, genIn, idVars, nameVars, parseVars, bridgeVars, clientVars>>

TypeNext == ParseProperty \/ MapType

SpecType == TypeInit /\ [][TypeNext]_vars

\* the table of types
TableType(odataType) ==
    CASE odataType \in {"Edm.Int16", "Edm.Int32", "Edm.Int64", "Edm.Byte", "Edm.SByte"}
            -> "integer"
      [] odataType \in {"Edm.Single", "Edm.Double", "Edm.Decimal"} -> "number"
      [] odataType = "Edm.Boolean" -> "boolean"
      [] odataType \in {"Edm.String", "Edm.DateTime", "Edm.DateTimeOffset", "Edm.Time",
                        "Edm.Guid", "Edm.Binary"} -> "string"

\* C18: the type mapper answers every type string, with the type the table
\* lists for a type of the table (integer for the five integer types,
\* number for Single, Double and Decimal, boolean for Boolean, string for
\* String, the date and time types, Guid and Binary) and with string for
\* any other type string.
C18_TypeAsInTable ==
    pc = "mapped" =>
        /\ genOut.type \in {"string", "integer", "number", "boolean"}
        /\ callOut[1].type \in TableTypes => genOut.type = TableType(callOut[1].type)
        /\ callOut[1].type \notin TableTypes => genOut.type = "string"

\* a one-byte integer was mapped
C18_Witness ==
    pc = "mapped" /\ callOut[1].type = "Edm.SByte" /\ genOut.type = "integer"

\* a type outside the table was mapped
C18_WitnessUnlisted ==
    pc = "mapped" /\ callOut[1].type = "Edm.GeographyPoint" /\ genOut.type = "string"

\* C19: for a property of type Edm.Single, Edm.Double or Edm.Decimal the
\* schema has a multipleOf exactly when the property has a scale, of value
\* ten to the power minus the scale, whether it has a precision or not.
C19_MultipleOfFollowsScale ==
    (pc = "mapped" /\ callOut[1].type \in {"Edm.Single", "Edm.Double", "Edm.Decimal"}) =>
        /\ genOut.multipleOf.present <=> callOut[1].scale.present
        /\ (genOut.multipleOf.present /\ ~callOut[1].scale.value.nan) =>
              genOut.multipleOf.value = 0 - callOut[1].scale.value.n

-----------------------------------------------------------------------------
(* An <EntityType> element without a Name                                  *)

Nameless(el) == el.Name = ""

\* the number of <EntityType> elements of the document that have no Name
RECURSIVE CountNameless(_)
CountNameless(schemas) ==
    IF schemas = <<>> THEN 0
    ELSE Len(SelectSeq(schemas[1].entityTypes, Nameless)) + CountNameless(Tail(schemas))

\* the document with those elements taken out
WithoutNamelessTypes(doc) ==
    [doc EXCEPT !.schemas =
        [i \in 1..Len(doc.schemas) |->
            [doc.schemas[i] EXCEPT !.entityTypes =
                SelectSeq(@, LAMBDA el : ~Nameless(el))]]]

\* a document that parseMetadata goes through: it has a root element that
\* is not a parser error
Parseable(doc) == doc.dom = DomTree /\ doc.rootTag # "parsererror"

\* C20: parsing a document in which an <EntityType> has no Name throws no
\* error and returns what parsing the document without that element
\* returns: the same entities, entity sets, functions and actions.
C20_NamelessTypeIsPassedOver ==
    (pc = "done" /\ Parseable(parseIn) /\ CountNameless(parseIn.schemas) >= 1) =>
        /\ ~parseOut.threw
        /\ parseOut = parseMetadata(WithoutNamelessTypes(parseIn))

\* one nameless element, between two entity types that were parsed
C20_Witness ==
    /\ pc = "done"
    /\ Parseable(parseIn)
    /\ CountNameless(parseIn.schemas) = 1
    /\ ~parseOut.threw
    /\ Len(parseOut.value.entities) >= 2
    /\ Len(parseOut.value.entitySets) >= 2
    /\ Len(parseOut.value.functions) >= 1

-----------------------------------------------------------------------------
(* The token cache (oauth.service.ts: OAuth2Service)                       *)
(*                                                                         *)
(* Times are milliseconds, as Date.now() gives them.  The Map tokenCache   *)
(* is a function of the cache keys with NoToken where the Map has no       *)
(* entry.  An access token is written as the credential set the token      *)
(* endpoint issued it for.  A call of getAccessToken that is waiting for   *)
(* the token endpoint records when it sent its request and whether the     *)
(* cache entry of its key was cleared since.                               *)

OAuth2Config(tokenUrl, clientId, clientSecret, scope) ==
    [tokenUrl |-> tokenUrl, clientId |-> clientId,
     clientSecret |-> clientSecret, scope |-> scope]

\* `${config.tokenUrl}:${config.clientId}`
generateCacheKeyWithSecret(config) ==
    config.tokenUrl \o <<":">> \o config.clientId \o <<":">> \o config.clientSecret
        \o <<":">> \o config.scope

generateCacheKey(config) == config.tokenUrl \o <<":">> \o config.clientId

OAuth2Token(access_token, expires_in, expires_at, beforeClear) ==
    [ present |-> TRUE, access_token |-> access_token, expires_in |-> expires_in,
      expires_at |-> expires_at, beforeClear |-> beforeClear ]

NoToken ==
    [ present |-> FALSE, access_token |-> OAuth2Config(<<>>, <<>>, <<>>, <<>>),
      expires_in |-> 0, expires_at |-> 0, beforeClear |-> FALSE ]

bufferTime == 60 * 1000

\* a validity test without the buffer
isTokenValidToTheEnd(token, time) ==
    /\ token.expires_at # 0
    /\ time < token.expires_at

\* isTokenValid: !token.expires_at is true of 0 and of NaN
isTokenValid(token, time) ==
    /\ token.expires_at # 0
    /\ time < token.expires_at - bufferTime

\* token.expires_at = Date.now() + (token.expires_in * 1000), after the await
ExpiresAt(time, expires_in) == time + expires_in * 1000

(* Scenario: calls of getAccessToken and clearTokenCache, and the clock *)

MaxTicks == 2
MaxCalls == 1

TickTime == 30 * 1000

\* two credential sets of one client that differ in the secret and in the
\* scope, and one of another client
ConfigA == OAuth2Config(<<"u">>, <<"a">>, <<"s">>, <<>>)
ConfigB == OAuth2Config(<<"u">>, <<"a">>, <<"t">>, <<"w">>)
ConfigD == OAuth2Config(<<"u">>, <<"b">>, <<"s">>, <<>>)

OAuth2Configs == {ConfigA, ConfigB, ConfigD}

CacheKeys == { generateCacheKey(c) : c \in OAuth2Configs }

\* the expires_in of a token response, in seconds; 0 also stands for a
\* response without the member
ExpiresIn == {0, 120}

TokenCall(config, requestedAt, cleared) ==
    [config |-> config, requestedAt |-> requestedAt, cleared |-> cleared]

Times == { k * TickTime : k \in 0..MaxTicks }

TokenCalls ==
    { TokenCall(c, t, b) : c \in OAuth2Configs, t \in Times, b \in BOOLEAN }

NoDelivery ==
    [ op |-> "none", config |-> OAuth2Config(<<>>, <<>>, <<>>, <<>>),
      access_token |-> OAuth2Config(<<>>, <<>>, <<>>, <<>>), fromCache |-> FALSE,
      requestedAt |-> 0, expires_in |-> 0, expires_at |-> 0, beforeClear |-> FALSE ]

\* every call in flight for the key is marked: the entry was cleared
\* after it sent its request
RECURSIVE MarkCleared(_, _)
MarkCleared(bag, keys) ==
    IF bag = EmptyBag THEN EmptyBag
    ELSE LET call == CHOOSE c \in BagToSet(bag) : TRUE
             rest == [c \in BagToSet(bag) \ {call} |-> bag[c]]
         IN  MarkCleared(rest, keys)
             (+) [c \in {IF generateCacheKey(call.config) \in keys
                         THEN [call EXCEPT !.cleared = TRUE] ELSE call} |-> bag[call]]

OAuthInit ==
    /\ pc = "oauth"
    /\ tokenCache = [k \in CacheKeys |-> NoToken]
    /\ calls = EmptyBag
    /\ now = 0
    /\ delivered = NoDelivery
    /\ axiosInstances = <<>> /\ connectionStates = <<>> /\ csrfTokens = <<>>
    /\ IdIdle /\ NameIdle /\ GenIdle /\ ParseIdle /\ BridgeIdle /\ CallIdle

oauthFrame ==
    <<pc, idVars, nameVars, genVars, parseVars, bridgeVars, callVars,
      axiosInstances, connectionStates, csrfTokens>>

\* getAccessToken up to its return or its await
GetAccessToken(config) ==
    LET cachedToken == tokenCache[generateCacheKey(config)] IN
    /\ pc = "oauth"
    /\ IF cachedToken.present /\ isTokenValid(cachedToken, now)
       THEN /\ delivered' = [ op |-> "getAccessToken", config |-> config,
                              access_token |-> cachedToken.access_token,
                              fromCache |-> TRUE, requestedAt |-> now,
                              expires_in |-> cachedToken.expires_in,
                              expires_at |-> cachedToken.expires_at,
                              beforeClear |-> cachedToken.beforeClear ]
            /\ UNCHANGED calls
       ELSE /\ BagCardinality(calls) < MaxCalls
            /\ calls' = calls (+) Single(TokenCall(config, now, FALSE))
            /\ delivered' = NoDelivery
    /\ UNCHANGED <<oauthFrame, tokenCache, now>>

\* the token endpoint answers: getAccessToken after its await
TokenArrives(call, expires_in) ==
    /\ pc = "oauth"
    /\ BagIn(call, calls)
    /\ calls' = calls (-) Single(call)
    /\ tokenCache' = [tokenCache EXCEPT ![generateCacheKey(call.config)] =
                        OAuth2Token(call.config, expires_in,
                                    ExpiresAt(now, expires_in), call.cleared)]
    /\ delivered' = [ op |-> "getAccessToken", config |-> call.config,
                      access_token |-> call.config, fromCache |-> FALSE,
                      requestedAt |-> call.requestedAt, expires_in |-> expires_in,
                      expires_at |-> ExpiresAt(now, expires_in),
                      beforeClear |-> call.cleared ]
    /\ UNCHANGED <<oauthFrame, now>>

\* requestAccessToken logs and rethrows
TokenRequestFails(call) ==
    /\ pc = "oauth"
    /\ BagIn(call, calls)
    /\ calls' = calls (-) Single(call)
    /\ delivered' = [NoDelivery EXCEPT !.op = "getAccessToken failed",
                                       !.config = call.config]
    /\ UNCHANGED <<oauthFrame, tokenCache, now>>

\* clearTokenCache(config)
ClearTokenCache(config) ==
    /\ pc = "oauth"
    /\ tokenCache' = [tokenCache EXCEPT ![generateCacheKey(config)] = NoToken]
    /\ calls' = MarkCleared(calls, {generateCacheKey(config)})
    /\ delivered' = [NoDelivery EXCEPT !.op = "clearTokenCache", !.config = config]
    /\ UNCHANGED <<oauthFrame, now>>

\* clearTokenCache()
ClearWholeTokenCache ==
    /\ pc = "oauth"
    /\ tokenCache' = [k \in CacheKeys |-> NoToken]
    /\ calls' = MarkCleared(calls, CacheKeys)
    /\ delivered' = [NoDelivery EXCEPT !.op = "clearTokenCache"]
    /\ UNCHANGED <<oauthFrame, now>>

\* the response interceptor of a system with authType oauth2 and this
\* oauth2 member sees a 401
Unauthorized(config) ==
    /\ pc = "oauth"
    /\ tokenCache' = [tokenCache EXCEPT ![generateCacheKey(config)] = NoToken]
    /\ calls' = MarkCleared(calls, {generateCacheKey(config)})
    /\ delivered' = [NoDelivery EXCEPT !.op = "401", !.config = config]
    /\ UNCHANGED <<oauthFrame, now>>

Tick ==
    /\ pc = "oauth"
    /\ now < MaxTicks * TickTime
    /\ now' = now + TickTime
    /\ delivered' = NoDelivery
    /\ UNCHANGED <<oauthFrame, tokenCache, calls>>

OAuthNext ==
    \/ \E config \in OAuth2Configs : GetAccessToken(config)
    \/ \E call \in TokenCalls, e \in ExpiresIn : TokenArrives(call, e)
    \/ \E call \in TokenCalls : TokenRequestFails(call)
    \/ \E config \in OAuth2Configs : ClearTokenCache(config)
    \/ ClearWholeTokenCache
    \/ \E config \in OAuth2Configs : Unauthorized(config)
    \/ Tick

SpecOAuth == OAuthInit /\ [][OAuthNext]_vars


FromCache == delivered.op = "getAccessToken" /\ delivered.fromCache

FromEndpoint == delivered.op = "getAccessToken" /\ ~delivered.fromCache

AfterClear == delivered.op \in {"clearTokenCache", "401"}

\* C27 as stated: getAccessToken returns a cached token only when its
\* expiry is more than 60 seconds ahead; otherwise it requests a token and
\* stores it with expires_at = request time + expires_in seconds; and a
\* token returned from the cache was never requested before the last
\* clearTokenCache or 401 of its configuration.
C27_CachedOnlyWhileFresh ==
    /\ FromCache => delivered.expires_at - now > bufferTime
    /\ FromEndpoint =>
          delivered.expires_at = delivered.requestedAt + delivered.expires_in * 1000
    /\ FromCache => ~delivered.beforeClear

\* C27, with the expiry counted from the arrival of the token response:
\* getAccessToken returns a cached token only when its expiry is more than
\* 60 seconds ahead; a requested token is stored and returned with
\* expires_at = time of the response + expires_in seconds, which is never
\* before the request time + expires_in; and right after
\* clearTokenCache(config) or a 401 the cache holds no token for the
\* configuration, so that a getAccessToken(config) that runs before a call
\* already in flight stores its token requests a new one.
C27_CachedOnlyWhileFreshFromArrival ==
    /\ FromCache => delivered.expires_at - now > bufferTime
    /\ FromEndpoint =>
          /\ delivered.expires_at = now + delivered.expires_in * 1000
          /\ delivered.expires_at >= delivered.requestedAt + delivered.expires_in * 1000
          /\ tokenCache[generateCacheKey(delivered.config)].access_token
                = delivered.access_token
    /\ (AfterClear /\ delivered.config # NoDelivery.config) =>
          ~tokenCache[generateCacheKey(delivered.config)].present

\* a token stored at time 0 is returned from the cache one tick later
C27_Witness ==
    /\ FromCache
    /\ now = TickTime
    /\ delivered.expires_at = ExpiresAt(0, 120)

\* C28: getAccessToken(config) returns only a token that the token
\* endpoint issued for a configuration equal to config in tokenUrl,
\* clientId, clientSecret and scope.
C28_TokenOfOwnCredentials ==
    delivered.op = "getAccessToken" => delivered.access_token = delivered.config

-----------------------------------------------------------------------------
(* The system client (universal-system-client.service.ts:                  *)
(* UniversalSystemClientService)                                           *)
(*                                                                         *)
(* axiosInstances is the set of keys of the Map; connectionStates gives    *)
(* "none" where the Map has no entry, "connected" and "notConnected" for   *)
(* an entry by its connected member; csrfTokens gives "" where the Map     *)
(* has no entry.  Every GET goes through the request interceptor of the    *)
(* instance, which asks the OAuth2Service for a token, and its answer      *)
(* through the response interceptor.  A call is a chain of GETs: the one   *)
(* the operation sent and, inside the response interceptor, the GET of     *)
(* fetchCSRFToken, whose answer goes through the same interceptor.  The    *)
(* chain is written by its root (pc), the number of fetchCSRFToken calls   *)
(* begun in it (fetches) and the status the root GET was answered with     *)
(* (first).  One connect and one request per system are followed at a      *)
(* time.                                                                   *)

MaxFetches == 2

ClientSystems == {"c1", "c2"}

\* c1 asks for CSRF tokens, c2 does not; both authenticate with OAuth2
SystemConfig(systemId) ==
    [ id         |-> systemId,
      enableCSRF |-> systemId = "c1",
      authType   |-> "oauth2",
      oauth2     |-> IF systemId = "c1" THEN ConfigA ELSE ConfigD ]

Statuses == {200, 401, 403, 500}

ClientOperations == {"executeQuery", "discoverServices", "getServiceMetadata"}

IdleCall == [pc |-> "idle", fetches |-> 0, first |-> 0]

NoOutcome ==
    [ op |-> "none", systemId |-> "", outcome |-> "", status |-> 0,
      fetches |-> 0, attempt |-> 0 ]

Outcome(op, systemId, outcome, status, fetches, attempt) ==
    [ op |-> op, systemId |-> systemId, outcome |-> outcome, status |-> status,
      fetches |-> fetches, attempt |-> attempt ]

\* configureAuthentication for a GET of the system: getAccessToken leaves a
\* token of the system's credentials in the cache
Authenticated(systemId, cache) ==
    LET config == SystemConfig(systemId).oauth2
        key    == generateCacheKey(config)
    IN  IF SystemConfig(systemId).authType = "oauth2" /\ ~cache[key].present
        THEN [cache EXCEPT ![key] = OAuth2Token(config, 120, ExpiresAt(0, 120), FALSE)]
        ELSE cache

\* the response interceptor on a 401: clearTokenCache(systemConfig.oauth2)
AfterStatus(systemId, status, cache) ==
    IF status = 401 /\ SystemConfig(systemId).authType = "oauth2"
    THEN [cache EXCEPT ![generateCacheKey(SystemConfig(systemId).oauth2)] = NoToken]
    ELSE cache

\* the response interceptor calls fetchCSRFToken and that finds the
\* instance of the system
FetchesAgain(systemId, status, call) ==
    /\ status = 403
    /\ SystemConfig(systemId).enableCSRF
    /\ systemId \in axiosInstances

ClientInit ==
    /\ pc = "client"
    /\ axiosInstances = {}
    /\ connectionStates = [s \in ClientSystems |-> "none"]
    /\ csrfTokens = [s \in ClientSystems |-> ""]
    /\ tokenCache = [k \in CacheKeys |-> NoToken]
    /\ calls = [s \in ClientSystems |-> [connect |-> IdleCall, request |-> IdleCall]]
    /\ now = 0
    /\ delivered = NoOutcome
    /\ IdIdle /\ NameIdle /\ GenIdle /\ ParseIdle /\ BridgeIdle /\ CallIdle

clientFrame == <<pc, idVars, nameVars, genVars, parseVars, bridgeVars, callVars, now>>

\* connect up to the await in testConnection
StartConnect(systemId) ==
    /\ pc = "client"
    /\ calls[systemId].connect.pc = "idle"
    /\ axiosInstances' = axiosInstances \cup {systemId}
    /\ calls' = [calls EXCEPT ![systemId].connect = [IdleCall EXCEPT !.pc = "test"]]
    /\ tokenCache' = Authenticated(systemId, tokenCache)
    /\ delivered' = NoOutcome
    /\ UNCHANGED <<clientFrame, connectionStates, csrfTokens>>

\* executeQuery, discoverServices and getServiceMetadata up to their await
StartRequest(systemId, op) ==
    /\ pc = "client"
    /\ IF systemId \notin axiosInstances
       THEN /\ delivered' = Outcome(op, systemId, "not connected", 0, 0, 0)
            /\ UNCHANGED <<calls, tokenCache>>
       ELSE /\ calls[systemId].request.pc = "idle"
            /\ calls' = [calls EXCEPT ![systemId].request = [IdleCall EXCEPT !.pc = "query"]]
            /\ tokenCache' = Authenticated(systemId, tokenCache)
            /\ delivered' = NoOutcome
    /\ UNCHANGED <<clientFrame, axiosInstances, connectionStates, csrfTokens>>

\* the innermost GET of a call is answered: the response interceptor, and
\* what runs after it up to the next await or the end of the call
Answered(systemId, slot, status, token) ==
    LET call    == calls[systemId][slot]
        config  == SystemConfig(systemId)
        isFetch == call.pc = "csrf" \/ call.fetches > 0
        cache   == AfterStatus(systemId, status, tokenCache)
        root    == IF isFetch /\ call.pc # "csrf" THEN call.first ELSE status
        stored  == IF isFetch /\ status = 200 /\ token # ""
                   THEN [csrfTokens EXCEPT ![systemId] = token] ELSE csrfTokens
    IN
    /\ pc = "client"
    /\ call.pc # "idle"
    /\ status = 200 \/ token = ""
    /\ IF FetchesAgain(systemId, status, call)
       THEN /\ call.fetches < MaxFetches
            /\ calls' = [calls EXCEPT ![systemId][slot] =
                            [call EXCEPT !.fetches = @ + 1,
                                         !.first = IF isFetch THEN @ ELSE status]]
            /\ tokenCache' = Authenticated(systemId, cache)
            /\ delivered' = NoOutcome
            /\ UNCHANGED <<connectionStates, csrfTokens>>
       ELSE /\ csrfTokens' = stored
            /\ CASE call.pc = "query" ->
                      /\ calls' = [calls EXCEPT ![systemId][slot] = IdleCall]
                      /\ delivered' = Outcome("request", systemId,
                                              IF root = 200 THEN "response" ELSE "error",
                                              root, call.fetches, 1)
                      /\ tokenCache' = cache
                      /\ UNCHANGED connectionStates
                 [] call.pc = "test" ->
                      /\ connectionStates' =
                            [connectionStates EXCEPT ![systemId] =
                                IF root = 200 THEN "connected" ELSE "notConnected"]
                      /\ IF root = 200 /\ config.enableCSRF /\ systemId \in axiosInstances
                         THEN /\ calls' = [calls EXCEPT ![systemId][slot] =
                                              [pc |-> "csrf", fetches |-> 1, first |-> 0]]
                              /\ tokenCache' = Authenticated(systemId, cache)
                              /\ delivered' = NoOutcome
                         ELSE /\ calls' = [calls EXCEPT ![systemId][slot] = IdleCall]
                              /\ tokenCache' = cache
                              /\ delivered' = Outcome("connect", systemId,
                                                      IF root = 200 THEN "true" ELSE "false",
                                                      root, call.fetches, 1)
                 [] call.pc = "csrf" ->
                      /\ calls' = [calls EXCEPT ![systemId][slot] = IdleCall]
                      /\ tokenCache' = cache
                      /\ delivered' = Outcome("connect", systemId, "true", 200,
                                              call.fetches, 1)
                      /\ UNCHANGED connectionStates
    /\ UNCHANGED <<clientFrame, axiosInstances>>

\* disconnect(systemId)
Disconnect(systemId) ==
    /\ pc = "client"
    /\ axiosInstances' = axiosInstances \ {systemId}
    /\ csrfTokens' = [csrfTokens EXCEPT ![systemId] = ""]
    /\ connectionStates' =
          [connectionStates EXCEPT ![systemId] = IF @ = "none" THEN @ ELSE "notConnected"]
    /\ delivered' = Outcome("disconnect", systemId, "", 0, 0, 0)
    /\ UNCHANGED <<clientFrame, tokenCache, calls>>

DisconnectAll ==
    /\ pc = "client"
    /\ axiosInstances' = {}
    /\ csrfTokens' = [s \in ClientSystems |-> ""]
    /\ connectionStates' = [s \in ClientSystems |-> "none"]
    /\ tokenCache' = [k \in CacheKeys |-> NoToken]
    /\ delivered' = Outcome("disconnectAll", "", "", 0, 0, 0)
    /\ UNCHANGED <<clientFrame, calls>>

ClientNext ==
    \/ \E s \in ClientSystems : StartConnect(s)
    \/ \E s \in ClientSystems, op \in ClientOperations : StartRequest(s, op)
    \/ \E s \in ClientSystems, slot \in {"connect", "request"},
          status \in Statuses, token \in {"", "token"} : Answered(s, slot, status, token)
    \/ \E s \in ClientSystems : Disconnect(s)
    \/ DisconnectAll

SpecClient == ClientInit /\ [][ClientNext]_vars


\* C21: when a request on a CSRF-enabled system is answered with 403, the
\* client fetches a new CSRF token and sends the request again, and the
\* caller is given the answer of that second attempt, not the 403 of the
\* first.
C21_RetriedAfterTokenFetch ==
    ( /\ delivered.op = "request"
      /\ SystemConfig(delivered.systemId).enableCSRF
      /\ delivered.status = 403 ) =>
        /\ delivered.fetches >= 1
        /\ delivered.attempt >= 2

\* C23: whenever the connection state of a system says connected, or a
\* CSRF token is stored for it, an HTTP client instance is registered for
\* it, under every interleaving of connect, disconnect, disconnectAll and
\* the token fetches.
C23_ConnectedHasInstance ==
    pc = "client" =>
        \A s \in ClientSystems :
            (connectionStates[s] = "connected" \/ csrfTokens[s] # "") =>
                s \in axiosInstances

RequestSent(s) ==
    calls[s].request.pc = "idle" /\ calls'[s].request.pc = "query"

\* C24: executeQuery, discoverServices and getServiceMetadata send an HTTP
\* request for a system only when its recorded connection state is
\* connected, and in every other state fail with "System s not connected"
\* and send nothing.
C24_RequestsOnlyWhenConnected ==
    [][ pc = "client" =>
          \A s \in ClientSystems :
             /\ RequestSent(s) => connectionStates[s] = "connected"
             /\ ( /\ delivered'.op \in ClientOperations
                  /\ delivered'.systemId = s
                  /\ delivered'.outcome = "not connected" )
                   => connectionStates[s] # "connected" ]_vars

\* C25: one failed request makes the client fetch a CSRF token at most
\* once, also when the GET of the token fetch is itself answered with 403;
\* connect's own token fetch is followed by at most one more.
C25_OneTokenFetchPerFailure ==
    pc = "client" =>
        \A s \in ClientSystems :
            /\ calls[s].request.fetches <= 1
            /\ calls[s].connect.pc = "test" => calls[s].connect.fetches <= 1
            /\ calls[s].connect.pc = "csrf" => calls[s].connect.fetches <= 2

-----------------------------------------------------------------------------
(* The OData client of the JSON-RPC side (multi-odata-client.service.ts:   *)
(* MultiODataClientService), which has no response interceptor and shares  *)
(* the OAuth2Service                                                       *)
(*                                                                         *)
(* Its Maps are written as those of the system client; connectionStates    *)
(* gives "connected" for true and "notConnected" for false.                *)

\* the statuses that connect takes for a sign that the system is reachable
ReachableStatuses == {200, 401, 403, 404}

MultiInit ==
    /\ pc = "multi"
    /\ axiosInstances = {}
    /\ connectionStates = [s \in ClientSystems |-> "none"]
    /\ csrfTokens = [s \in ClientSystems |-> ""]
    /\ tokenCache = [k \in CacheKeys |-> NoToken]
    /\ calls = [s \in ClientSystems |-> [connect |-> IdleCall, request |-> IdleCall]]
    /\ now = 0
    /\ delivered = NoOutcome
    /\ IdIdle /\ NameIdle /\ GenIdle /\ ParseIdle /\ BridgeIdle /\ CallIdle

\* addSystem: the config is stored and the instance made
AddSystem(systemId) ==
    /\ pc = "multi"
    /\ axiosInstances' = axiosInstances \cup {systemId}
    /\ delivered' = NoOutcome
    /\ UNCHANGED <<clientFrame, connectionStates, csrfTokens, tokenCache, calls>>

\* connect up to its first await: the GET of fetchCSRFToken or the GET /
MultiConnect(systemId) ==
    /\ pc = "multi"
    /\ calls[systemId].connect.pc = "idle"
    /\ IF systemId \notin axiosInstances
       THEN /\ delivered' = Outcome("connect", systemId, "not found", 0, 0, 0)
            /\ UNCHANGED <<calls, tokenCache>>
       ELSE /\ calls' = [calls EXCEPT ![systemId].connect =
                           IF SystemConfig(systemId).enableCSRF
                           THEN [pc |-> "csrf", fetches |-> 1, first |-> 0]
                           ELSE [pc |-> "test", fetches |-> 0, first |-> 0]]
            /\ tokenCache' = Authenticated(systemId, tokenCache)
            /\ delivered' = NoOutcome
    /\ UNCHANGED <<clientFrame, axiosInstances, connectionStates, csrfTokens>>

\* the GET that connect waits for is answered
MultiAnswered(systemId, status, token) ==
    LET call == calls[systemId].connect IN
    /\ pc = "multi"
    /\ call.pc # "idle"
    /\ status = 200 \/ token = ""
    /\ IF call.pc = "csrf"
       THEN /\ csrfTokens' = IF status = 200 /\ token # ""
                             THEN [csrfTokens EXCEPT ![systemId] = token]
                             ELSE csrfTokens
            /\ calls' = [calls EXCEPT ![systemId].connect.pc = "test"]
            /\ tokenCache' = Authenticated(systemId, tokenCache)
            /\ delivered' = NoOutcome
            /\ UNCHANGED connectionStates
       ELSE /\ connectionStates' =
                  [connectionStates EXCEPT ![systemId] =
                      IF status \in ReachableStatuses THEN "connected" ELSE "notConnected"]
            /\ calls' = [calls EXCEPT ![systemId].connect = IdleCall]
            /\ delivered' = Outcome("connect", systemId,
                                    IF status \in ReachableStatuses THEN "true" ELSE "false",
                                    status, call.fetches, 1)
            /\ UNCHANGED <<csrfTokens, tokenCache>>
    /\ UNCHANGED <<clientFrame, axiosInstances>>

\* disconnect(systemId)
MultiDisconnect(systemId) ==
    /\ pc = "multi"
    /\ connectionStates' = [connectionStates EXCEPT ![systemId] = "notConnected"]
    /\ csrfTokens' = [csrfTokens EXCEPT ![systemId] = ""]
    /\ tokenCache' = [k \in CacheKeys |-> NoToken]
    /\ delivered' = Outcome("disconnect", systemId, "", 0, 0, 0)
    /\ UNCHANGED <<clientFrame, axiosInstances, calls>>

MultiDisconnectAll ==
    /\ pc = "multi"
    /\ connectionStates' = [s \in ClientSystems |-> "none"]
    /\ csrfTokens' = [s \in ClientSystems |-> ""]
    /\ tokenCache' = [k \in CacheKeys |-> NoToken]
    /\ delivered' = Outcome("disconnectAll", "", "", 0, 0, 0)
    /\ UNCHANGED <<clientFrame, axiosInstances, calls>>

MultiNext ==
    \/ \E s \in ClientSystems : AddSystem(s)
    \/ \E s \in ClientSystems : MultiConnect(s)
    \/ \E s \in ClientSystems, status \in Statuses \cup {404}, token \in {"", "token"} :
          MultiAnswered(s, status, token)
    \/ \E s \in ClientSystems : MultiDisconnect(s)
    \/ MultiDisconnectAll

SpecMulti == MultiInit /\ [][MultiNext]_vars

\* what belongs to a system: its connection flag, its CSRF token, its HTTP
\* client instance and its cached OAuth token
OfSystem(t, instances, states, tokens, cache) ==
    [ instance |-> t \in instances, state |-> states[t], csrf |-> tokens[t],
      token |-> cache[generateCacheKey(SystemConfig(t).oauth2)] ]

\* C29: disconnect(s) leaves what belongs to every other system as it
\* was: its connection flag, its CSRF token, its HTTP client instance and
\* its cached OAuth token.
C29_DisconnectTouchesOneSystem ==
    [][ delivered'.op = "disconnect" =>
          \A t \in ClientSystems \ {delivered'.systemId} :
              OfSystem(t, axiosInstances', connectionStates', csrfTokens', tokenCache')
                = OfSystem(t, axiosInstances, connectionStates, csrfTokens, tokenCache)
      ]_vars

-----------------------------------------------------------------------------
(* Custom headers of a system loaded from an environment block             *)
(* (system-config.service.ts: loadSystemWithPrefix, parseCustomHeaders,    *)
(* addSystem; universal-system-client.service.ts: createAxiosInstance)     *)
(*                                                                         *)
(* An object of headers is the sequence of its [key, value] members in     *)
(* insertion order.  An environment variable is an Opt of its text.        *)

Header(key, value) == [key |-> key, value |-> value]

\* headers[key] = value
RECURSIVE SetHeader(_, _, _)
SetHeader(headers, key, value) ==
    IF headers = <<>> THEN << Header(key, value) >>
    ELSE IF headers[1].key = key THEN << Header(key, value) >> \o Tail(headers)
    ELSE << headers[1] >> \o SetHeader(Tail(headers), key, value)

\* Object.assign(target, source)
RECURSIVE ObjectAssign(_, _)
ObjectAssign(target, source) ==
    IF source = <<>> THEN target
    ELSE ObjectAssign(SetHeader(target, source[1].key, source[1].value), Tail(source))

\* text.split(sep) for a one-character separator
RECURSIVE Split(_, _)
Split(text, sep) ==
    LET n == RunLen(text, 1, {c \in {text[i] : i \in 1..Len(text)} : c # sep})
    IN  IF n = Len(text) THEN <<text>>
        ELSE <<SubSeq(text, 1, n)>> \o Split(SubSeq(text, n + 2, Len(text)), sep)

\* text.trim(), for the blank
RECURSIVE TrimStart(_)
TrimStart(text) ==
    IF text # <<>> /\ text[1] = " " THEN TrimStart(Tail(text)) ELSE text

RECURSIVE TrimEnd(_)
TrimEnd(text) ==
    IF text # <<>> /\ text[Len(text)] = " "
    THEN TrimEnd(SubSeq(text, 1, Len(text) - 1)) ELSE text

Trim(text) == TrimEnd(TrimStart(text))

(* JSON.parse, for a text that is either an object whose members are      *)
(* strings without escapes, or no JSON text at all *)

SkipBlanks(text, i) == i + RunLen(text, i, {" "})

\* the string literal that starts at i: its text and the index after it
JsonString(text, i) ==
    IF i <= Len(text) /\ text[i] = "\""
    THEN LET n == RunLen(text, i + 1, {c \in {text[k] : k \in 1..Len(text)} : c # "\""})
         IN  IF i + n + 1 <= Len(text)
             THEN [ok |-> TRUE, text |-> SubSeq(text, i + 1, i + n), next |-> i + n + 2]
             ELSE [ok |-> FALSE, text |-> <<>>, next |-> i]
    ELSE [ok |-> FALSE, text |-> <<>>, next |-> i]

SyntaxError == [ok |-> FALSE, value |-> <<>>]

\* the members from index i on, up to the closing brace and the end
RECURSIVE JsonMembers(_, _, _)
JsonMembers(text, i, acc) ==
    LET key   == JsonString(text, SkipBlanks(text, i))
        colon == SkipBlanks(text, key.next)
        value == JsonString(text, SkipBlanks(text, colon + 1))
        after == SkipBlanks(text, value.next)
    IN  IF ~key.ok \/ colon > Len(text) \/ text[colon] # ":" \/ ~value.ok
           \/ after > Len(text)
        THEN SyntaxError
        ELSE IF text[after] = ","
             THEN JsonMembers(text, after + 1, SetHeader(acc, key.text, value.text))
        ELSE IF text[after] = "}" /\ SkipBlanks(text, after + 1) > Len(text)
             THEN [ok |-> TRUE, value |-> SetHeader(acc, key.text, value.text)]
        ELSE SyntaxError

JsonParse(text) ==
    LET open  == SkipBlanks(text, 1)
        first == SkipBlanks(text, open + 1)
    IN  IF open > Len(text) \/ text[open] # "{" \/ first > Len(text) THEN SyntaxError
        ELSE IF text[first] = "}"
             THEN IF SkipBlanks(text, first + 1) > Len(text)
                  THEN [ok |-> TRUE, value |-> <<>>] ELSE SyntaxError
        ELSE JsonMembers(text, first, <<>>)

\* the loop of the catch branch: const [key, value] = pair.split('=')
RECURSIVE PairsInto(_, _)
PairsInto(pairs, headers) ==
    IF pairs = <<>> THEN headers
    ELSE LET parts == Split(pairs[1], "=")
             key   == parts[1]
         IN  IF key # <<>> /\ Len(parts) >= 2 /\ parts[2] # <<>>
             THEN PairsInto(Tail(pairs), SetHeader(headers, Trim(key), Trim(parts[2])))
             ELSE PairsInto(Tail(pairs), headers)

NoHeaders == Opt(FALSE, <<>>)

\* parseCustomHeaders: undefined, the JSON value, or the pairs if any
parseCustomHeaders(headersString) ==
    IF ~headersString.present \/ headersString.value = <<>> THEN NoHeaders
    ELSE IF JsonParse(headersString.value).ok
         THEN Opt(TRUE, JsonParse(headersString.value).value)
    ELSE LET headers == PairsInto(Split(headersString.value, ","), <<>>)
         IN  IF Len(headers) > 0 THEN Opt(TRUE, headers) ELSE NoHeaders

NoSystemMetadata == [present |-> FALSE, discoveryUrl |-> <<>>, customHeaders |-> NoHeaders]

\* loadSystemWithPrefix, for the members read here: null (no element)
\* without a BASE_URL; metadata only with a DISCOVERY_URL
loadSystemWithPrefix(env) ==
    IF ~env.BASE_URL.present \/ env.BASE_URL.value = <<>> THEN <<>>
    ELSE << [ baseUrl  |-> env.BASE_URL.value,
              metadata |->
                 IF env.DISCOVERY_URL.present /\ env.DISCOVERY_URL.value # <<>>
                 THEN [ present       |-> TRUE,
                        discoveryUrl  |-> env.DISCOVERY_URL.value,
                        customHeaders |-> parseCustomHeaders(env.CUSTOM_HEADERS) ]
                 ELSE NoSystemMetadata ] >>

\* SystemConfigSchema.parse: baseUrl and a discoveryUrl that is there are
\* URLs (the customHeaders here are records of strings)
SchemaAccepts(config) ==
    /\ UrlValid(config.baseUrl)
    /\ (config.metadata.present /\ config.metadata.discoveryUrl # <<>>)
          => UrlValid(config.metadata.discoveryUrl)

\* addSystem: the configs stored, none when the loader gave null or the
\* validation threw
addSystem(loaded) ==
    IF loaded # <<>> /\ SchemaAccepts(loaded[1]) THEN loaded ELSE <<>>

DefaultHeaders ==
    << Header(<<"C","o","n","t","e","n","t","-","T","y","p","e">>, <<"a","p","p","l","i","c","a","t","i","o","n","/","j","s","o","n">>),
       Header(<<"A","c","c","e","p","t">>, <<"a","p","p","l","i","c","a","t","i","o","n","/","j","s","o","n">>),
       Header(<<"U","s","e","r","-","A","g","e","n","t">>, <<"U","n","i","v","e","r","s","a","l","-","O","D","a","t","a","-","M","C","P","-","C","l","i","e","n","t","/","1",".","0">>) >>

\* createAxiosInstance: the headers of every request of the instance
InstanceHeaders(systemConfig) ==
    IF systemConfig.metadata.present /\ systemConfig.metadata.customHeaders.present
    THEN ObjectAssign(DefaultHeaders, systemConfig.metadata.customHeaders.value)
    ELSE DefaultHeaders

(* Scenario: a system is loaded from an environment block and its axios    *)
(* instance made *)

\* the header objects that the CUSTOM_HEADERS texts are written from
HeaderObjects ==
    { << Header(<<"X","-","A","P","I","-","K","e","y">>, <<"k","1">>) >>,
      << Header(<<"X","-","A","P","I","-","K","e","y">>, <<"k","1">>), Header(<<"A","c","c","e","p","t">>, <<"t","e","x","t","/","x","m","l">>) >>,
      << Header(<<"A">>, <<"v">>), Header(<<"B">>, <<"w">>) >>,
      << Header(<<"B">>, <<"w">>), Header(<<"A">>, <<"v">>) >>,
      << Header(<<"A">>, <<"v">>) >> }

RECURSIVE WriteJsonMembers(_)
WriteJsonMembers(headers) ==
    IF headers = <<>> THEN <<>>
    ELSE <<"\"">> \o headers[1].key \o <<"\"", ":", " ", "\"">> \o headers[1].value
         \o <<"\"">>
         \o (IF Len(headers) > 1 THEN <<",", " ">> ELSE <<>>)
         \o WriteJsonMembers(Tail(headers))

\* {"X-API-Key": "k1", "Accept": "text/xml"}
WriteJson(headers) == <<"{">> \o WriteJsonMembers(headers) \o <<"}">>

\* X-API-Key=k1,Accept=text/xml
RECURSIVE WritePairs(_)
WritePairs(headers) ==
    IF headers = <<>> THEN <<>>
    ELSE headers[1].key \o <<"=">> \o headers[1].value
         \o (IF Len(headers) > 1 THEN <<",">> ELSE <<>>)
         \o WritePairs(Tail(headers))

AbsentVariable == Opt(FALSE, <<>>)

DiscoveryUrls ==
    { AbsentVariable, Opt(TRUE, <<"h","t","t","p","s",":","/","/","h","/","c","a","t","a","l","o","g">>), Opt(TRUE, <<"/","s","a","p","/","c","a","t","a","l","o","g">>) }

BaseUrls == { AbsentVariable, Opt(TRUE, <<"h","t","t","p","s",":","/","/","h">>), Opt(TRUE, <<"h","t","t","p","s",":","/","/","h","/","o","d","a","t","a">>) }

EnvironmentBlocks ==
    { [ BASE_URL |-> b, DISCOVERY_URL |-> d, written |-> h,
        CUSTOM_HEADERS |-> Opt(TRUE, IF json THEN WriteJson(h) ELSE WritePairs(h)) ] :
          b \in BaseUrls, d \in DiscoveryUrls, h \in HeaderObjects, json \in BOOLEAN }
    \cup
    { [ BASE_URL |-> b, DISCOVERY_URL |-> d, CUSTOM_HEADERS |-> AbsentVariable,
        written |-> <<>> ] : b \in BaseUrls, d \in DiscoveryUrls }

HeadersInit ==
    /\ pc = "environment"
    /\ callIn \in EnvironmentBlocks
    /\ callOut = <<>>
    /\ IdIdle /\ NameIdle /\ GenIdle /\ ParseIdle /\ BridgeIdle /\ ClientIdle

LoadSystem ==
    /\ pc = "environment"
    /\ callOut' = addSystem(loadSystemWithPrefix(callIn))
    /\ pc' = (IF callOut' = <<>> THEN "not loaded" ELSE "loaded")
    /\ UNCHANGED <<callIn, idVars, nameVars, genVars, parseVars, bridgeVars, clientVars>>

CreateAxiosInstance ==
    /\ pc = "loaded"
    /\ pc' = "instance"
    /\ genOut' = InstanceHeaders(callOut[1])
    /\ UNCHANGED <<callIn, callOut, genIn, idVars, nameVars, parseVars, bridgeVars,
                   clientVars>>

HeadersNext == LoadSystem \/ CreateAxiosInstance

SpecHeaders == HeadersInit /\ [][HeadersNext]_vars

HeaderSent(header) == \E i \in 1..Len(genOut) : genOut[i] = header

\* C22: for every system loaded from an environment block that sets
\* CUSTOM_HEADERS, in JSON or in key=value form, the headers written there
\* are stored in the system's configuration and are among the headers of
\* every request of its client, with a DISCOVERY_URL and without one.
C22_CustomHeadersAreSent ==
    (pc = "instance" /\ callIn.CUSTOM_HEADERS.present) =>
        /\ callOut[1].metadata.customHeaders = Opt(TRUE, callIn.written)
        /\ \A i \in 1..Len(callIn.written) : HeaderSent(callIn.written[i])

\* C22 without its last clause: if the block also sets a DISCOVERY_URL
C22_CustomHeadersAreSentWithDiscovery ==
    (pc = "instance" /\ callIn.CUSTOM_HEADERS.present /\ callIn.DISCOVERY_URL.present) =>
        /\ callOut[1].metadata.customHeaders = Opt(TRUE, callIn.written)
        /\ \A i \in 1..Len(callIn.written) : HeaderSent(callIn.written[i])

\* a header in key=value form replaced the default Accept header
C22_Witness ==
    /\ pc = "instance"
    /\ callIn.CUSTOM_HEADERS = Opt(TRUE, <<"X","-","A","P","I","-","K","e","y","=","k","1",",","A","c","c","e","p","t","=","t","e","x","t","/","x","m","l">>)
    /\ callIn.DISCOVERY_URL.present
    /\ HeaderSent(Header(<<"A","c","c","e","p","t">>, <<"t","e","x","t","/","x","m","l">>))
    /\ Len(genOut) = 4

-----------------------------------------------------------------------------
(* Scenario: refreshSystemTools calls of one system that overlap, kept in  *)
(* the order in which they started                                         *)

\* a refreshSystemTools call: where it is and the mapping it generated
RefreshCall(at, mapping) == [pc |-> at, mapping |-> mapping]

OverlapInit ==
    /\ pc = "overlap"
    /\ backend \in [SystemIds -> MetadataDocuments]
    /\ toolMappings = <<>>
    /\ refreshes = EmptyBag
    /\ initializing = IdleInitialize
    /\ lastRead = NoRead
    /\ calls = <<>>
    /\ axiosInstances = <<>> /\ connectionStates = <<>> /\ csrfTokens = <<>>
    /\ tokenCache = <<>> /\ now = <<>> /\ delivered = <<>>
    /\ IdIdle /\ NameIdle /\ GenIdle /\ ParseIdle /\ CallIdle

overlapFrame ==
    <<pc, idVars, nameVars, genVars, parseVars, callVars, refreshes, initializing,
      lastRead, axiosInstances, connectionStates, csrfTokens, tokenCache, now, delivered>>

\* refreshSystemTools(SystemA) up to the await inside generateJsonRpcTools
RefreshStarts ==
    /\ Len(calls) < MaxRefreshes
    /\ calls' = Append(calls, RefreshCall("fetching", NoMapping))
    /\ UNCHANGED <<overlapFrame, backend, toolMappings>>

\* the system answers the metadata request of call i with what it serves
\* now, and generateJsonRpcTools builds the mapping from it
RefreshFetched(i) ==
    /\ calls[i].pc = "fetching"
    /\ calls' = [calls EXCEPT ![i] =
                    RefreshCall("generated", generateJsonRpcTools(SystemA, backend[SystemA]))]
    /\ UNCHANGED <<overlapFrame, backend, toolMappings>>

\* the metadata request of call i fails: the call logs and rethrows
RefreshRejected(i) ==
    /\ calls[i].pc = "fetching"
    /\ calls' = [calls EXCEPT ![i] = RefreshCall("failed", NoMapping)]
    /\ UNCHANGED <<overlapFrame, backend, toolMappings>>

\* call i after its await: this.toolMappings.set(systemId, mapping)
RefreshRegisters(i) ==
    /\ calls[i].pc = "generated"
    /\ toolMappings' = MapSet(toolMappings, calls[i].mapping)
    /\ calls' = [calls EXCEPT ![i] = RefreshCall("registered", calls[i].mapping)]
    /\ UNCHANGED <<overlapFrame, backend>>

OverlapNext ==
    \/ \E m \in MetadataDocuments : BackendChanges(SystemA, m)
    \/ RefreshStarts
    \/ \E i \in 1..Len(calls) : RefreshFetched(i)
    \/ \E i \in 1..Len(calls) : RefreshRejected(i)
    \/ \E i \in 1..Len(calls) : RefreshRegisters(i)

SpecOverlap == OverlapInit /\ [][OverlapNext]_vars

\* C26: once every one of two or more refreshSystemTools calls of a system
\* has registered its mapping, the tools registered for the system are
\* those of the call that started last, in whatever order the calls'
\* metadata arrived and the calls registered.
C26_LaterStartedRefreshWins ==
    (/\ Len(calls) >= 2
     /\ \A i \in 1..Len(calls) : calls[i].pc = "registered")
       => getToolsForSystem(toolMappings, SystemA) = calls[Len(calls)].mapping.tools

-----------------------------------------------------------------------------
(* Dispatch of a JSON-RPC method name (odata-jsonrpc-bridge.service.ts:    *)
(* executeMethod and the operations it calls)                              *)

\* parts.join('_')
RECURSIVE JoinUnderscores(_)
JoinUnderscores(parts) ==
    IF parts = <<>> THEN <<>>
    ELSE IF Len(parts) = 1 THEN parts[1]
    ELSE parts[1] \o Underscore \o JoinUnderscores(Tail(parts))

\* what a call came to: the operation, the system it went to and the
\* entity set it worked on
Handled(operation, systemId, entitySetName) ==
    [operation |-> operation, systemId |-> systemId, entitySetName |-> entitySetName]

\* throw new Error(...), which handleJsonRpcCall turns into an error response
InternalError == Handled("error", <<>>, <<>>)

\* metadataDiscovery.getEntitySchema: the entity set found by its name in
\* lower case, and bridge.getEntitySchema, which throws when the set or
\* its entity type is not there
getEntitySchema(systemId, entitySetName, metadata) ==
    LET found == SelectSeq(metadata.entitySets,
                           LAMBDA es : ToLowerCase(es.name) = ToLowerCase(entitySetName))
    IN  IF found = <<>> THEN InternalError
        ELSE IF ~\E i \in 1..Len(metadata.entities) :
                   metadata.entities[i].name = found[1].entityType[Len(found[1].entityType)]
             THEN InternalError
        ELSE Handled("getEntitySchema", systemId, found[1].name)

\* bridge.queryEntitySet without a key: the request goes to
\* multiODataClient.queryEntitySet(systemId, entitySetName), that is to the
\* path /<entitySetName>
queryEntitySet(systemId, entitySetName) ==
    Handled("queryEntitySet", systemId, entitySetName)

\* executeMethod for a method of a system whose metadata is the one given
executeMethod(method, paramsSystemId, metadata) ==
    IF method = <<"l","i","s","t","_","o","d","a","t","a","_","s","y","s","t","e","m","s">> THEN Handled("listODataSystems", <<>>, <<>>)
    ELSE IF method = <<"g","e","t","_","s","y","s","t","e","m","_","c","o","n","n","e","c","t","i","o","n","_","i","n","f","o">>
         THEN Handled("getSystemConnectionInfo", paramsSystemId, <<>>)
    ELSE LET split    == Split(method, "_")
             systemId == split[1]
             action   == IF Len(split) >= 2 THEN split[2] ELSE <<>>
             parts    == SubSeq(split, 3, Len(split))
         IN  IF systemId = <<>> THEN InternalError
             ELSE IF action = <<"g","e","t">>
                  THEN IF parts # <<>> /\ parts[1] = <<"m","e","t","a","d","a","t","a">>
                       THEN Handled("getMetadata", systemId, <<>>)
                       ELSE IF Len(parts) >= 2 /\ parts[Len(parts)] = <<"s","c","h","e","m","a">>
                            THEN getEntitySchema(systemId,
                                     JoinUnderscores(SubSeq(parts, 1, Len(parts) - 1)),
                                     metadata)
                       ELSE InternalError
             ELSE IF action = <<"l","i","s","t">>
                  THEN IF parts # <<>> /\ parts[1] = <<"e","n","t","i","t","i","e","s">>
                       THEN Handled("listEntities", systemId, <<>>)
                       ELSE IF Len(parts) >= 2 /\ parts[1] = <<"e","n","t","i","t","y">> /\ parts[2] = <<"s","e","t","s">>
                            THEN Handled("listEntitySets", systemId, <<>>)
                       ELSE IF parts # <<>> /\ parts[1] = <<"f","u","n","c","t","i","o","n","s">>
                            THEN Handled("listFunctions", systemId, <<>>)
                       ELSE InternalError
             ELSE IF action = <<"q","u","e","r","y">>
                  THEN queryEntitySet(systemId, JoinUnderscores(parts))
             ELSE InternalError

(* Scenario: the tools of a system are generated and one of them is called *)

MaxDispatchSets == 2

DispatchSystemIds == { <<"s","1">>, <<"c","-","s">>, <<"a","_","b">> }

EntitySetNames == { <<"o","r","d","e","r","s">>, <<"O","r","d","e","r","s">>, <<"o","r","d","e","r","_","d","e","t","a","i","l","s">>, <<"m","e","t","a","d","a","t","a">> }

DispatchEntitySets ==
    { [name |-> n, entityType |-> <<"NS", "Order">>] : n \in EntitySetNames }

DispatchMetadata ==
    { ODataMetadata(<< [name |-> "Order", properties |-> <<"Id">>] >>, sets, functions) :
        sets \in { s \in SeqsUpTo(DispatchEntitySets, MaxDispatchSets) :
                     \A i, j \in 1..Len(s) : i # j => s[i].name # s[j].name },
        functions \in { <<>>, << [name |-> "Ship"] >> } }

DispatchInit ==
    /\ pc = "start"
    /\ callIn \in [systemId : DispatchSystemIds, metadata : DispatchMetadata]
    /\ callOut = <<>>
    /\ IdIdle /\ NameIdle /\ GenIdle /\ ParseIdle /\ BridgeIdle /\ ClientIdle

GenerateJsonRpcTools ==
    /\ pc = "start"
    /\ pc' = "generated"
    /\ callOut' = generateJsonRpcTools(callIn.systemId, callIn.metadata).tools
    /\ UNCHANGED <<callIn, idVars, nameVars, genVars, parseVars, bridgeVars, clientVars>>

\* handleJsonRpcCall with the name of the i-th generated tool as method
HandleJsonRpcCall(i) ==
    /\ pc = "generated"
    /\ pc' = "handled"
    /\ genIn' = i
    /\ genOut' = executeMethod(callOut[i].name, <<>>, callIn.metadata)
    /\ UNCHANGED <<callIn, callOut, idVars, nameVars, parseVars, bridgeVars, clientVars>>

DispatchNext ==
    \/ GenerateJsonRpcTools
    \/ \E i \in 1..Len(callOut) : HandleJsonRpcCall(i)

SpecDispatch == DispatchInit /\ [][DispatchNext]_vars

\* the operation the i-th tool of the list stands for: three tools of the
\* system, two for each entity set in turn, one for the functions
OperationOfTool(systemId, metadata, i) ==
    IF i = 1 THEN Handled("getMetadata", systemId, <<>>)
    ELSE IF i = 2 THEN Handled("listEntities", systemId, <<>>)
    ELSE IF i = 3 THEN Handled("listEntitySets", systemId, <<>>)
    ELSE IF i > 3 + 2 * Len(metadata.entitySets)
         THEN Handled("listFunctions", systemId, <<>>)
    ELSE IF (i - 3) % 2 = 1
         THEN Handled("queryEntitySet", systemId, metadata.entitySets[(i - 2) \div 2].name)
    ELSE Handled("getEntitySchema", systemId, metadata.entitySets[(i - 3) \div 2].name)

\* C30: every tool name that generateJsonRpcTools produces for a system
\* and its metadata is dispatched by handleJsonRpcCall to the operation it
\* was generated for, on that system and, for the query and schema tools,
\* on the entity set under its original name.
C30_ToolNamesRoundTrip ==
    pc = "handled" => genOut = OperationOfTool(callIn.systemId, callIn.metadata, genIn)

\* the same for system ids without an underscore and entity sets whose
\* names are in lower case and do not begin with the word metadata
C30_PlainNamesRoundTrip ==
    (/\ pc = "handled"
     /\ callIn.systemId # <<"a","_","b">>
     /\ \A i \in 1..Len(callIn.metadata.entitySets) :
           callIn.metadata.entitySets[i].name \in { <<"o","r","d","e","r","s">>, <<"o","r","d","e","r","_","d","e","t","a","i","l","s">> })
       => genOut = OperationOfTool(callIn.systemId, callIn.metadata, genIn)

C30_Witness ==
    /\ pc = "handled"
    /\ callIn.systemId = <<"c","-","s">>
    /\ genOut = Handled("getEntitySchema", <<"c","-","s">>, <<"o","r","d","e","r","_","d","e","t","a","i","l","s">>)

=============================================================================
